---- MODULE Spec2Model ----
(***************************************************************************)
(* SignTrace: the compliance rule engine (src/lib/complianceEngine.ts),    *)
(* the POST /api/analyze pipeline that writes compliance reports, and the  *)
(* bias detection (src/lib/biasDetection.ts). SpecWrites and SpecPipeline  *)
(* take analyzeCompliance and the pipeline statement by statement;         *)
(* SpecAudit has concurrent writers of the audit log.                      *)
(*                                                                         *)
(* Texts are TLA+ strings; toLowerCase, substring and includes are         *)
(* computed character by character as JavaScript computes them.            *)
(***************************************************************************)
EXTENDS Integers, Sequences, FiniteSets, TLC

VARIABLES
    events,         \* processEvent rows of the recording, ordered by stepNumber
    catalog,        \* caseType rows, in the order findMany returns them
    violations,     \* the Violation[] the last analysis run built
    result,         \* the scores the last operation returned
    caseTypeId,     \* the caseTypeId argument of the analysis (0: not given)
    selected,       \* id of the case type the last run resolved (0: none)
    runs,           \* the violation lists of the successive runs on this input
    report,         \* the complianceReport row of the recording
    storedViolations, \* violation rows of that report
    status,         \* recording.status
    auditLog,       \* auditLog rows, oldest first
    pc,             \* which operation or statement acted last; in SpecAudit,
                    \* per request, where it stands and what it read
    recordings,     \* recording rows with their report and events, oldest first
    biasFlags,      \* biasFlag rows, oldest first
    current,        \* the recording a bias analysis works on
    similarCases,   \* the comparison cases handed to the bias analyses
    biasResult      \* what the last bias operation returned

vars == <<events, catalog, violations, result, caseTypeId, selected, runs, report,
          storedViolations, status, auditLog, pc,
          recordings, biasFlags, current, similarCases, biasResult>>

\* the state of the rule engine and the state of the bias detection
engineVars == <<events, catalog, violations, result, caseTypeId, selected, runs, report,
                storedViolations, status, auditLog>>
biasVars == <<recordings, biasFlags, current, similarCases, biasResult>>

\* ---------------------------------------------------------------- bounds

MaxViolations == 6
MaxScoredEvents == 2
MaxEvents == 2
MaxSteps == 3
MaxCatalog == 3
MaxRuns == 2
MaxRecordings == 4
MaxPeers == 5
MaxBiasFlags == 2
MaxFlags == 3
MaxRecommended == 3
MaxWriters == 2
MaxAuditEntries == 3

\* ------------------------------------------------------- JavaScript strings

Null == "<null>"

Min(a, b) == IF a < b THEN a ELSE b
Max(a, b) == IF a > b THEN a ELSE b

UpperCase == "ABCDEFGHIJKLMNOPQRSTUVWXYZ"
LowerCase == "abcdefghijklmnopqrstuvwxyz"

UpperToLower ==
    [c \in {SubSeq(UpperCase, i, i) : i \in 1..26} |->
        LET i == CHOOSE j \in 1..26 : SubSeq(UpperCase, j, j) = c
        IN  SubSeq(LowerCase, i, i)]

\* String.prototype.toLowerCase, character by character
RECURSIVE LowerChars(_)
LowerChars(s) ==
    IF Len(s) = 0 THEN ""
    ELSE LET c == SubSeq(s, 1, 1)
         IN  (IF c \in DOMAIN UpperToLower THEN UpperToLower[c] ELSE c)
                 \o LowerChars(SubSeq(s, 2, Len(s)))

\* String.prototype.substring(0, n)
substring(s, n) == SubSeq(s, 1, Min(n, Len(s)))

\* String.prototype.includes, position by position: the empty needle is
\* found in every string
IncludesAt(hay, needle) ==
    \E i \in 0..(Len(hay) - Len(needle)) : SubSeq(hay, i + 1, i + Len(needle)) = needle

\* the texts of the model: what extraction writes as event actions, what a
\* catalog author enters as required steps and forbidden actions
ActionTexts ==
    {"Hearing opened", "Decision announced", "Decision announcing", "HEARING", "", " "}

StepTexts == {"Rights reading", "Hearing opened", "Decision announced"}

BlankTexts == {""}

ForbiddenTexts == {"", "Decision"}

Keywords ==
    {"rights", "notify", "hearing", "evidence", "document", "record",
     "decision", "ruling", "review"}

\* actionType values the extraction step stores as event actions
ExtractedActionTexts == {"hearing_start", "ruling"}

\* event actions about evidence, and one that is both a ruling and a review
EvidenceTexts == {"Evidence review", "Ruling after evidence review"}

\* required steps with the keywords of determineSeverity: in upper case, two
\* at once, none, and a word that only resembles one
SeverityTexts ==
    {"Rights reading", "NOTIFY party", "Collect Evidence", "Document filing",
     "Record of rights", "Evidence document", "Notification", "Closing"}

Texts ==
    ActionTexts \cup StepTexts \cup BlankTexts \cup ForbiddenTexts \cup ExtractedActionTexts
        \cup EvidenceTexts \cup SeverityTexts

\* the two string functions tabulated once over the texts of the model
LowerCaseOf == [t \in Texts |-> LowerChars(t)]

LoweredTexts == {LowerCaseOf[t] : t \in Texts}

Needles ==
    Keywords \cup {substring(t, 10) : t \in LoweredTexts}
             \cup {substring(t, 15) : t \in LoweredTexts}

IncludesOf == [hay \in LoweredTexts, needle \in Needles |-> IncludesAt(hay, needle)]

toLowerCase(s) == IF s \in Texts THEN LowerCaseOf[s] ELSE LowerChars(s)

includes(hay, needle) ==
    IF hay \in LoweredTexts /\ needle \in Needles
    THEN IncludesOf[hay, needle]
    ELSE IncludesAt(hay, needle)

\* ------------------------------------------------------------- violations

Severities == {"low", "medium", "high", "critical"}

Violation(type, description, severity, evidenceText, evidenceTime, violatedRule) ==
    [type |-> type, description |-> description, severity |-> severity,
     evidenceText |-> evidenceText, evidenceTime |-> evidenceTime,
     violatedRule |-> violatedRule]

\* ---------------------------------------------------------- calculateScores

ComplianceDelta(severity) ==
    CASE severity = "critical" -> 25
      [] severity = "high" -> 15
      [] severity = "medium" -> 8
      [] severity = "low" -> 3

\* the risk column filled from the compliance column for one row
RiskDeltaMixedUp(severity) ==
    CASE severity = "critical" -> 30
      [] severity = "high" -> 15
      [] severity = "medium" -> 10
      [] severity = "low" -> 5

RiskDelta(severity) ==
    CASE severity = "critical" -> 30
      [] severity = "high" -> 20
      [] severity = "medium" -> 10
      [] severity = "low" -> 5

\* the for loop of calculateScores: the running pair after the first n violations
RECURSIVE ScoreLoop(_, _)
ScoreLoop(vs, n) ==
    IF n = 0 THEN [complianceScore |-> 100, riskScore |-> 0]
    ELSE LET acc == ScoreLoop(vs, n - 1)
         IN  [complianceScore |-> acc.complianceScore - ComplianceDelta(vs[n].severity),
              riskScore |-> acc.riskScore + RiskDelta(vs[n].severity)]

Clamp(x) == Max(0, Min(100, x))

\* the tier taken from the numeric thresholds alone
SeverityLevelByRiskOnly(riskScore, vs) ==
    IF riskScore >= 70 THEN "critical"
    ELSE IF riskScore >= 50 THEN "high"
    ELSE IF riskScore >= 25 THEN "medium"
    ELSE "low"

\* the high branch tested before the critical branch
SeverityLevelHighFirst(riskScore, vs) ==
    IF riskScore >= 50 \/ \E i \in DOMAIN vs : vs[i].severity = "high" THEN "high"
    ELSE IF riskScore >= 70 \/ \E i \in DOMAIN vs : vs[i].severity = "critical" THEN "critical"
    ELSE IF riskScore >= 25 THEN "medium"
    ELSE "low"

SeverityLevel(riskScore, vs) ==
    IF riskScore >= 70 \/ \E i \in DOMAIN vs : vs[i].severity = "critical" THEN "critical"
    ELSE IF riskScore >= 50 \/ \E i \in DOMAIN vs : vs[i].severity = "high" THEN "high"
    ELSE IF riskScore >= 25 THEN "medium"
    ELSE "low"

calculateScores(vs, totalEvents) ==
    LET acc == ScoreLoop(vs, Len(vs))
        complianceScore == Clamp(acc.complianceScore)
        riskScore == Clamp(acc.riskScore)
    IN  [complianceScore |-> complianceScore,
         riskScore |-> riskScore,
         severityLevel |-> SeverityLevel(riskScore, vs)]

NoResult == [complianceScore |-> 100, riskScore |-> 0, severityLevel |-> "low"]
NoReport ==
    [exists |-> FALSE, id |-> 0, caseTypeId |-> 0, complianceScore |-> 0, riskScore |-> 0,
     severityLevel |-> "low", recommendation |-> ""]

\* prisma.violation.create: the row of one violation of a report
ViolationRow(v, reportId) ==
    [complianceReportId |-> reportId, type |-> v.type, description |-> v.description,
     severity |-> v.severity, evidenceText |-> v.evidenceText,
     evidenceTime |-> v.evidenceTime, violatedRule |-> v.violatedRule]

\* for (const violation of violations) await prisma.violation.create(...)
StoreViolations(vs, reportId) == [i \in DOMAIN vs |-> ViolationRow(vs[i], reportId)]

\* the rows of POST /api/analyze: type, description and severity only
StoreAIViolations(vs, reportId) ==
    [i \in DOMAIN vs |->
        [complianceReportId |-> reportId, type |-> vs[i].type,
         description |-> vs[i].description, severity |-> vs[i].severity,
         evidenceText |-> Null, evidenceTime |-> Null, violatedRule |-> Null]]

\* Array.prototype.join
RECURSIVE join(_, _)
join(list, separator) ==
    IF list = <<>> THEN ""
    ELSE IF Len(list) = 1 THEN list[1]
    ELSE list[1] \o separator \o join(Tail(list), separator)

\* recommendations.push(sentence) when the test holds
PushIf(recommendations, test, sentence) ==
    IF test THEN Append(recommendations, sentence) ELSE recommendations

\* a variant whose last test looks at the high severity
generateRecommendationUrgentOnHigh(vs) ==
    IF Len(vs) = 0
    THEN "No action required. Process appears to comply with procedures."
    ELSE join(PushIf(PushIf(PushIf(PushIf(<<>>,
            \E i \in DOMAIN vs : vs[i].type = "missing_step",
            "Review case file to confirm all required steps were documented"),
            \E i \in DOMAIN vs : vs[i].type = "informal_decision",
            "Escalate for supervisor review due to procedural irregularities"),
            \E i \in DOMAIN vs : vs[i].type = "no_justification",
            "Request legal justification for decisions made"),
            \E i \in DOMAIN vs : vs[i].severity = "high",
            "URGENT: This case requires immediate human review"), ". ") \o "."

generateRecommendation(vs) ==
    IF Len(vs) = 0
    THEN "No action required. Process appears to comply with procedures."
    ELSE join(PushIf(PushIf(PushIf(PushIf(<<>>,
            \E i \in DOMAIN vs : vs[i].type = "missing_step",
            "Review case file to confirm all required steps were documented"),
            \E i \in DOMAIN vs : vs[i].type = "informal_decision",
            "Escalate for supervisor review due to procedural irregularities"),
            \E i \in DOMAIN vs : vs[i].type = "no_justification",
            "Request legal justification for decisions made"),
            \E i \in DOMAIN vs : vs[i].severity = "critical",
            "URGENT: This case requires immediate human review"), ". ") \o "."

\* no recording loaded, nothing returned yet
NoRecording ==
    [id |-> 0, institution |-> Null, hasReport |-> FALSE, complianceScore |-> 0,
     speakers |-> <<>>]
NoBiasResult == [outcome |-> "none", recordingId |-> 0, flags |-> <<>>,
                 overallBiasRisk |-> 0, isAnomaly |-> FALSE]

\* no bias analysis has been asked for
BiasIdle ==
    /\ recordings = <<>>
    /\ biasFlags = <<>>
    /\ current = NoRecording
    /\ similarCases = <<>>
    /\ biasResult = NoBiasResult

\* ------------------------------------------------------- the five checks

\* JSON.parse(field || '[]') of a stored list field
ParseList(field) == IF field.kind = "list" THEN field.items ELSE <<>>

ListField(items) == [kind |-> "list", items |-> items]
NullField == [kind |-> "null", items |-> <<>>]

\* a stored field whose JSON text decodes to an object: POST /api/knowledge
\* stringifies whatever truthy forbiddenActions the request carries
ObjectField == [kind |-> "object", items |-> <<>>]

\* for (const x of value) raises a TypeError when the value is not iterable
NotIterable(field) == field.kind = "object"

\* the keywords looked up in the step text as written
determineSeverityCaseSensitive(step) ==
    IF includes(step, "rights") \/ includes(step, "notify") THEN "critical"
    ELSE IF includes(step, "hearing") \/ includes(step, "evidence") THEN "high"
    ELSE IF includes(step, "document") \/ includes(step, "record") THEN "medium"
    ELSE "low"

\* the third test placed first
determineSeverityMediumFirst(step) ==
    LET stepLower == toLowerCase(step)
    IN  IF includes(stepLower, "document") \/ includes(stepLower, "record") THEN "medium"
        ELSE IF includes(stepLower, "rights") \/ includes(stepLower, "notify") THEN "critical"
        ELSE IF includes(stepLower, "hearing") \/ includes(stepLower, "evidence") THEN "high"
        ELSE "low"

determineSeverity(step) ==
    LET stepLower == toLowerCase(step)
    IN  IF includes(stepLower, "rights") \/ includes(stepLower, "notify") THEN "critical"
        ELSE IF includes(stepLower, "hearing") \/ includes(stepLower, "evidence") THEN "high"
        ELSE IF includes(stepLower, "document") \/ includes(stepLower, "record") THEN "medium"
        ELSE "low"

\* the callback without its second disjunct
StepFoundForwardOnly(action, stepLower) ==
    includes(action, substring(stepLower, 15))

\* the callback of eventActions.some(...) in checkMissingSteps
StepFound(action, stepLower) ==
    \/ includes(action, substring(stepLower, 15))
    \/ includes(stepLower, substring(action, 15))

\* checkMissingSteps: the violations pushed for the first k required steps
RECURSIVE MissingStepsLoop(_, _, _)
MissingStepsLoop(evs, steps, k) ==
    IF k = 0 THEN <<>>
    ELSE LET sofar == MissingStepsLoop(evs, steps, k - 1)
             step == steps[k]
             stepLower == toLowerCase(step)
             found == \E i \in DOMAIN evs : StepFound(toLowerCase(evs[i].action), stepLower)
         IN  IF ~found
             THEN Append(sofar,
                    Violation("missing_step",
                              "Required step missing: \"" \o step \o "\"",
                              determineSeverity(step), Null, Null,
                              "Required procedure step: " \o step))
             ELSE sofar

checkMissingSteps(evs, steps) == MissingStepsLoop(evs, steps, Len(steps))

\* the test of the inner loop of checkStepOrder
OrderMatch(action, step) ==
    includes(toLowerCase(action), substring(toLowerCase(step), 15))

\* the inner loop of checkStepOrder: the first required step the event matches
\* (0: the loop ends without a push)
FirstMatchingStep(event, steps) ==
    IF \E i \in DOMAIN steps : OrderMatch(event.action, steps[i])
    THEN CHOOSE i \in DOMAIN steps :
            /\ OrderMatch(event.action, steps[i])
            /\ \A j \in 1..(i - 1) : ~OrderMatch(event.action, steps[j])
    ELSE 0

\* foundStepOrder after the first n events
RECURSIVE FoundStepOrder(_, _, _)
FoundStepOrder(evs, steps, n) ==
    IF n = 0 THEN <<>>
    ELSE LET sofar == FoundStepOrder(evs, steps, n - 1)
             i == FirstMatchingStep(evs[n], steps)
         IN  IF i > 0
             THEN Append(sofar, [step |-> steps[i], eventOrder |-> evs[n].stepNumber])
             ELSE sofar

\* Array.prototype.indexOf, counted from 1 (0: absent)
indexOf(list, x) ==
    IF \E i \in DOMAIN list : list[i] = x
    THEN CHOOSE i \in DOMAIN list : list[i] = x /\ \A j \in 1..(i - 1) : list[j] # x
    ELSE 0

\* the comparison with >= in place of >
OutOfOrderNonStrict(expectedBefore, expectedCurrent) == expectedBefore >= expectedCurrent

\* if (expectedBefore > expectedCurrent)
OutOfOrder(expectedBefore, expectedCurrent) == expectedBefore > expectedCurrent

\* the second loop of checkStepOrder, over foundStepOrder[1 .. i] (JS indices 1 .. i-1)
RECURSIVE OrderLoop(_, _, _)
OrderLoop(found, steps, i) ==
    IF i <= 1 THEN <<>>
    ELSE LET sofar == OrderLoop(found, steps, i - 1)
             expectedBefore == indexOf(steps, found[i - 1].step)
             expectedCurrent == indexOf(steps, found[i].step)
         IN  IF OutOfOrder(expectedBefore, expectedCurrent)
             THEN Append(sofar,
                    Violation("wrong_order",
                              "Steps performed out of order: \"" \o found[i].step
                                  \o "\" should come after \"" \o found[i - 1].step \o "\"",
                              "medium", Null, Null, Null))
             ELSE sofar

checkStepOrder(evs, steps) ==
    LET found == FoundStepOrder(evs, steps, Len(evs))
    IN  OrderLoop(found, steps, Len(found))

\* the test of the inner loop of checkForbiddenActions
ForbiddenMatch(action, forbidden) ==
    includes(toLowerCase(action), substring(toLowerCase(forbidden), 15))

\* the inner loop of checkForbiddenActions for one event, over the first k texts
RECURSIVE ForbiddenInner(_, _, _)
ForbiddenInner(event, forbiddenActions, k) ==
    IF k = 0 THEN <<>>
    ELSE LET sofar == ForbiddenInner(event, forbiddenActions, k - 1)
         IN  IF ForbiddenMatch(event.action, forbiddenActions[k])
             THEN Append(sofar,
                    Violation("informal_decision",
                              "Forbidden action detected: \"" \o forbiddenActions[k] \o "\"",
                              "high", event.action,
                              IF event.timestamp \in {Null, ""} THEN Null ELSE event.timestamp,
                              Null))
             ELSE sofar

RECURSIVE ForbiddenLoop(_, _, _)
ForbiddenLoop(evs, forbiddenActions, n) ==
    IF n = 0 THEN <<>>
    ELSE ForbiddenLoop(evs, forbiddenActions, n - 1)
            \o ForbiddenInner(evs[n], forbiddenActions, Len(forbiddenActions))

checkForbiddenActions(evs, forbiddenActions) ==
    ForbiddenLoop(evs, forbiddenActions, Len(evs))

\* the test without its second keyword
IsDecisionLikeDecisionOnly(action) ==
    includes(toLowerCase(action), "decision")

IsDecisionLike(action) ==
    LET actionLower == toLowerCase(action)
    IN  includes(actionLower, "decision") \/ includes(actionLower, "ruling")

IsEvidenceLike(action) ==
    LET actionLower == toLowerCase(action)
    IN  includes(actionLower, "evidence") \/ includes(actionLower, "review")

\* the loop of checkInformalDecisions after the first n events:
\* indices of decisionEvent and evidenceEvent (0: null)
RECURSIVE InformalLoop(_, _)
InformalLoop(evs, n) ==
    IF n = 0 THEN [decision |-> 0, evidence |-> 0]
    ELSE LET acc == InformalLoop(evs, n - 1)
             d == IF /\ IsDecisionLike(evs[n].action)
                     /\ (acc.decision = 0
                          \/ evs[n].stepNumber < evs[acc.decision].stepNumber)
                  THEN n ELSE acc.decision
             e == IF /\ IsEvidenceLike(evs[n].action)
                     /\ (acc.evidence = 0
                          \/ evs[n].stepNumber < evs[acc.evidence].stepNumber)
                  THEN n ELSE acc.evidence
         IN  [decision |-> d, evidence |-> e]

\* the comparison with <= in place of <
DecisionFirstOrSame(decisionStep, evidenceStep) == decisionStep <= evidenceStep

\* decisionEvent.stepNumber < evidenceEvent.stepNumber
DecisionFirst(decisionStep, evidenceStep) == decisionStep < evidenceStep

checkInformalDecisions(evs) ==
    LET acc == InformalLoop(evs, Len(evs))
    IN  IF /\ acc.decision # 0
           /\ acc.evidence # 0
           /\ DecisionFirst(evs[acc.decision].stepNumber, evs[acc.evidence].stepNumber)
        THEN << Violation("informal_decision",
                  "Decision appears to have been made before evidence was formally reviewed",
                  "critical",
                  "Decision at step " \o ToString(evs[acc.decision].stepNumber)
                      \o ", evidence review at step "
                      \o ToString(evs[acc.evidence].stepNumber),
                  Null, Null) >>
        ELSE <<>>

\* the loop of checkLegalJustification over the first n events
RECURSIVE LegalJustificationLoop(_, _)
LegalJustificationLoop(evs, n) ==
    IF n = 0 THEN <<>>
    ELSE LET sofar == LegalJustificationLoop(evs, n - 1)
         IN  IF IsDecisionLike(evs[n].action) /\ evs[n].legalReference \in {Null, ""}
             THEN Append(sofar,
                    Violation("no_justification",
                              "Decision made without citing legal basis",
                              "medium", evs[n].action, Null, Null))
             ELSE sofar

checkLegalJustification(evs) == LegalJustificationLoop(evs, Len(evs))

\* ------------------------------------------------ detectBestMatchingCaseType

\* the test of the inner loop of detectBestMatchingCaseType
SelectorMatch(action, step) ==
    includes(toLowerCase(action), substring(toLowerCase(step), 10))

\* matchScore of one case type
matchScore(evs, steps) ==
    Cardinality({p \in (DOMAIN evs) \X (DOMAIN steps) :
                    SelectorMatch(evs[p[1]].action, steps[p[2]])})

\* the comparison with >= in place of >
BeatsHighestOrTies(score, highestScore) == score >= highestScore

\* if (matchScore > highestScore)
BeatsHighest(score, highestScore) == score > highestScore

\* the loop over the first k case types: bestMatch (an index) and highestScore
RECURSIVE BestMatchLoop(_, _, _)
BestMatchLoop(evs, caseTypes, k) ==
    IF k = 0 THEN [bestMatch |-> 1, highestScore |-> 0]
    ELSE LET acc == BestMatchLoop(evs, caseTypes, k - 1)
             score == matchScore(evs, ParseList(caseTypes[k].requiredSteps))
         IN  IF BeatsHighest(score, acc.highestScore)
             THEN [bestMatch |-> k, highestScore |-> score]
             ELSE acc

\* the index in the catalog of the case type returned (0: null)
detectBestMatchingCaseType(evs, caseTypes) ==
    IF Len(caseTypes) = 0 THEN 0
    ELSE LET acc == BestMatchLoop(evs, caseTypes, Len(caseTypes))
         IN  IF acc.highestScore > 0 THEN acc.bestMatch ELSE 0

\* ------------------------------------------------------- analyzeCompliance

\* prisma.caseType.findUnique({ where: { id } }): index in the catalog (0: null)
findUniqueCaseType(caseTypes, id) ==
    IF \E i \in DOMAIN caseTypes : caseTypes[i].id = id
    THEN CHOOSE i \in DOMAIN caseTypes : caseTypes[i].id = id
    ELSE 0

\* lines 38-50: the case type the run works with (index in the catalog, 0: none)
ResolveCaseType(evs, caseTypes, givenId) ==
    LET given == IF givenId # 0 THEN findUniqueCaseType(caseTypes, givenId) ELSE 0
    IN  IF given # 0 THEN given ELSE detectBestMatchingCaseType(evs, caseTypes)

\* detectBestMatchingCaseType iterates every requiredSteps value once per
\* event; the checks iterate requiredSteps once (checkMissingSteps) and
\* forbiddenActions once per event (checkForbiddenActions)
DetectRaises(evs, caseTypes) ==
    /\ Len(evs) > 0
    /\ \E k \in DOMAIN caseTypes : NotIterable(caseTypes[k].requiredSteps)

ChecksRaise(evs, caseType) ==
    \/ NotIterable(caseType.requiredSteps)
    \/ Len(evs) > 0 /\ NotIterable(caseType.forbiddenActions)

\* whether lines 38-78 raise instead of reaching calculateScores
AnalysisRaises(evs, caseTypes, givenId) ==
    LET given == IF givenId # 0 THEN findUniqueCaseType(caseTypes, givenId) ELSE 0
        ct == ResolveCaseType(evs, caseTypes, givenId)
    IN  \/ given = 0 /\ DetectRaises(evs, caseTypes)
        \/ ct # 0 /\ ChecksRaise(evs, caseTypes[ct])

\* an array that outlives the run
NewViolationListKept == violations

\* const violations: Violation[] = []
NewViolationList == <<>>

\* lines 52-78: the violation list of one run
CollectViolations(evs, caseTypes, ct) ==
    LET typed ==
            IF ct # 0
            THEN LET steps == ParseList(caseTypes[ct].requiredSteps)
                     forbiddenActions == ParseList(caseTypes[ct].forbiddenActions)
                 IN  checkMissingSteps(evs, steps)
                        \o checkStepOrder(evs, steps)
                        \o checkForbiddenActions(evs, forbiddenActions)
                        \o checkInformalDecisions(evs)
            ELSE <<>>
    IN  NewViolationList \o typed \o checkLegalJustification(evs)

\* --------------------------------------------- specification: score aggregation

\* a violation of each severity, as the checks of the engine produce them
SampleViolation(severity) ==
    Violation("missing_step", "Required step missing", severity, Null, Null, Null)

InitScore ==
    /\ events = <<>>
    /\ catalog = <<>>
    /\ violations = <<>>
    /\ result = NoResult
    /\ caseTypeId = 0
    /\ selected = 0
    /\ runs = <<>>
    /\ report = NoReport
    /\ storedViolations = <<>>
    /\ status = "pending"
    /\ auditLog = <<>>
    /\ pc = "init"
    /\ BiasIdle

\* violations.push(...) of one more violation of the given severity
PushViolation ==
    /\ Len(violations) < MaxViolations
    /\ \E s \in Severities : violations' = Append(violations, SampleViolation(s))
    /\ pc' = "push"
    /\ UNCHANGED <<events, catalog, result, caseTypeId, selected, runs, report, storedViolations,
                   status, auditLog>>
    /\ UNCHANGED biasVars

\* calculateScores(violations, totalEvents)
Score ==
    /\ \E totalEvents \in 0..MaxScoredEvents :
          result' = calculateScores(violations, totalEvents)
    /\ pc' = "scored"
    /\ UNCHANGED <<events, catalog, violations, caseTypeId, selected, runs, report,
                   storedViolations, status, auditLog>>
    /\ UNCHANGED biasVars

NextScore == PushViolation \/ Score

SpecScore == InitScore /\ [][NextScore]_vars

\* ------------------------------------------------------------ createAuditLog

\* crypto.createHash('sha256').update(JSON.stringify(entryData)).digest('hex'):
\* a text that determines the entry data it was computed from
Sha256(entryData) ==
    "sha256(" \o entryData.action \o "," \o entryData.entityType \o ","
        \o entryData.details \o "," \o entryData.previousHash \o ")"

\* createAuditLog(action, entityType, ..., details): the row it creates
AuditEntry(log, action, entityType, details) ==
    LET previousHash == IF Len(log) = 0 THEN Null ELSE log[Len(log)].entryHash
        entryData == [action |-> action, entityType |-> entityType,
                      details |-> details, previousHash |-> previousHash]
    IN  [action |-> action, entityType |-> entityType, details |-> details,
         previousHash |-> previousHash, entryHash |-> Sha256(entryData)]

\* ------------------------------------- specification: the compliance checks

\* every list of at most n elements of S
SeqsUpTo(S, n) == UNION {[1..k -> S] : k \in 0..n}

EventKinds ==
    [action : ActionTexts, legalReference : {Null}, timestamp : {Null}]
        \cup {[action |-> "Decision announced", legalReference |-> "Article 12",
               timestamp |-> Null]}

ForbiddenFields == {ListField(<<"">>), ListField(<<"Decision">>)}

\* requiredSteps lists with an empty entry
BlankStepLists == {<<"">>, <<"Hearing opened", "">>}

\* catalogs of one case type: every list of required steps without forbidden
\* actions, and the lists with an empty entry with each forbiddenActions field
SingleCatalogs ==
    {<< [id |-> 1, requiredSteps |-> ListField(steps), forbiddenActions |-> NullField] >> :
        steps \in SeqsUpTo(StepTexts, MaxSteps)}
    \cup
    {<< [id |-> 1, requiredSteps |-> ListField(steps), forbiddenActions |-> forbidden] >> :
        steps \in BlankStepLists, forbidden \in ForbiddenFields}

\* the rows saveProcessAnalysis creates, in stepNumber order
EventRows(kinds) ==
    [i \in DOMAIN kinds |->
        [stepNumber |-> i, action |-> kinds[i].action,
         legalReference |-> kinds[i].legalReference, timestamp |-> kinds[i].timestamp]]

InitChecks ==
    /\ events \in {EventRows(kinds) : kinds \in SeqsUpTo(EventKinds, MaxEvents)}
    /\ catalog \in SingleCatalogs
    /\ caseTypeId \in {0, 1}
    /\ violations = <<>>
    /\ result = NoResult
    /\ selected = 0
    /\ runs = <<>>
    /\ report = NoReport
    /\ storedViolations = <<>>
    /\ status = "analyzed"
    /\ auditLog = <<>>
    /\ pc = "init"
    /\ BiasIdle

\* lines 33-81 of analyzeCompliance: the case type, the violation list and
\* the scores of one run
Analysis(evs, caseTypes, givenId) ==
    LET ct == ResolveCaseType(evs, caseTypes, givenId)
        vs == CollectViolations(evs, caseTypes, ct)
    IN  [caseTypeId |-> IF ct = 0 THEN 0 ELSE caseTypes[ct].id,
         violations |-> vs,
         scores |-> calculateScores(vs, Len(evs)),
         recommendation |-> generateRecommendation(vs),
         raised |-> AnalysisRaises(evs, caseTypes, givenId)]

\* analyzeCompliance(recordingId, caseTypeId)
AnalyzeCompliance ==
    /\ Len(runs) < MaxRuns
    /\ \E a \in {Analysis(events, catalog, caseTypeId)} :
           IF a.raised
           THEN \* a TypeError leaves the function before anything is written
                /\ pc' = "raised"
                /\ UNCHANGED <<violations, runs, selected, result, report,
                               storedViolations, status, auditLog>>
           ELSE
           /\ violations' = a.violations
           /\ runs' = Append(runs, a.violations)
           /\ selected' = a.caseTypeId
           /\ IF report.exists
              THEN \* complianceReport.create: recordingId is unique, the call throws
                   /\ pc' = "threw"
                   /\ UNCHANGED <<result, report, storedViolations, status, auditLog>>
              ELSE /\ report' = [exists |-> TRUE, id |-> 1, caseTypeId |-> a.caseTypeId,
                                 complianceScore |-> a.scores.complianceScore,
                                 riskScore |-> a.scores.riskScore,
                                 severityLevel |-> a.scores.severityLevel,
                                 recommendation |-> a.recommendation]
                   /\ storedViolations' = StoreViolations(a.violations, 1)
                   /\ status' = "completed"
                   /\ auditLog' = Append(auditLog,
                          AuditEntry(auditLog, "analyze", "report",
                                     ToString(a.scores.complianceScore) \o "/"
                                        \o ToString(a.scores.riskScore) \o "/"
                                        \o ToString(Len(a.violations))))
                   /\ result' = a.scores
                   /\ pc' = "analyzed"
    /\ UNCHANGED <<events, catalog, caseTypeId>>
    /\ UNCHANGED biasVars

NextChecks == AnalyzeCompliance

SpecChecks == InitChecks /\ [][NextChecks]_vars

\* --------------------------------------- specification: case-type selection

\* requiredSteps lists of catalog entries
StepLists ==
    {<<>>, <<"Hearing opened">>, <<"Hearing opened", "Decision announced">>,
     <<"Rights reading">>, <<"">>}

\* rows of the catalog with ids 1, 2, ... in findMany order
CatalogRows(lists) ==
    [i \in DOMAIN lists |->
        [id |-> i, requiredSteps |-> ListField(lists[i]), forbiddenActions |-> NullField]]

\* events the selector is run on: one matching each catalog step by its
\* 10-character prefix, and one matching none
SelectEventKinds ==
    [action : {"Hearing opened", "Decision announcing", "HEARING"},
     legalReference : {Null}, timestamp : {Null}]

InitSelect ==
    /\ events \in {EventRows(kinds) : kinds \in SeqsUpTo(SelectEventKinds, MaxEvents)}
    /\ catalog \in {CatalogRows(lists) : lists \in SeqsUpTo(StepLists, MaxCatalog)}
    /\ caseTypeId \in {0, 2}
    /\ violations = <<>>
    /\ result = NoResult
    /\ selected = 0
    /\ runs = <<>>
    /\ report = NoReport
    /\ storedViolations = <<>>
    /\ status = "analyzed"
    /\ auditLog = <<>>
    /\ pc = "init"
    /\ BiasIdle

SpecSelect == InitSelect /\ [][NextChecks]_vars

\* ------------------- specification: forbidden actions and the keyword checks

\* events with and without a legal reference and a timestamp: decisions,
\* evidence reviews, one action that is both, one that is neither
RuleEventKinds ==
    {[action |-> "Decision announced", legalReference |-> Null, timestamp |-> Null],
     [action |-> "Decision announced", legalReference |-> "Article 12", timestamp |-> "00:05"],
     [action |-> "ruling", legalReference |-> "", timestamp |-> Null],
     [action |-> "Evidence review", legalReference |-> Null, timestamp |-> "00:05"],
     [action |-> "Ruling after evidence review", legalReference |-> Null, timestamp |-> Null],
     [action |-> "Hearing opened", legalReference |-> Null, timestamp |-> Null]}

RuleStepFields == {ListField(<<>>), ListField(<<"Hearing opened">>)}

RuleForbiddenFields ==
    {NullField, ListField(<<"Decision">>), ListField(<<"Decision", "Decision announced">>),
     ObjectField}

\* the empty catalog and the catalogs of one case type
RuleCatalogs ==
    {<<>>} \cup
    {<< [id |-> 1, requiredSteps |-> steps, forbiddenActions |-> forbidden] >> :
        steps \in RuleStepFields, forbidden \in RuleForbiddenFields}

InitRules ==
    /\ events \in {EventRows(kinds) : kinds \in SeqsUpTo(RuleEventKinds, MaxEvents)}
    /\ catalog \in RuleCatalogs
    /\ caseTypeId \in {0, 1}
    /\ violations = <<>>
    /\ result = NoResult
    /\ selected = 0
    /\ runs = <<>>
    /\ report = NoReport
    /\ storedViolations = <<>>
    /\ status = "analyzed"
    /\ auditLog = <<>>
    /\ pc = "init"
    /\ BiasIdle

SpecRules == InitRules /\ [][NextChecks]_vars

\* ------------------------------------ specification: the analysis pipelines

\* complianceScore values the external compliance answer can carry
\* (analyzeComplianceWithAI: 75 without an API key, 0 on an error, otherwise
\* whatever number the parsed JSON holds)
AIScores == {-20, 0, 50, 75, 100, 150}

\* violations lists of the external compliance answer
AIViolationLists ==
    {<<>>, << Violation("missing_step", "Rights not read", "high", Null, Null, Null) >>}

\* recommendations lists of the external compliance answer: none, and the one
\* analyzeComplianceWithAI returns without an API key
AIRecommendationLists == {<<>>, <<"Configure OpenAI API key for detailed analysis">>}

\* events lists extractLegalEvents returns (stepNumber 1, 2, ...)
ExtractedLists ==
    {<<>>,
     << [action |-> "ruling", legalReference |-> Null, timestamp |-> Null] >>,
     << [action |-> "hearing_start", legalReference |-> "Article 12", timestamp |-> Null],
        [action |-> "ruling", legalReference |-> Null, timestamp |-> Null] >>}

\* the processEvent rows after one more create, as findMany orders them
\* (by stepNumber, rows of equal stepNumber in creation order)
InsertRow(rows, row) ==
    LET before == SelectSeq(rows, LAMBDA r : r.stepNumber <= row.stepNumber)
        after == SelectSeq(rows, LAMBDA r : r.stepNumber > row.stepNumber)
    IN  before \o <<row>> \o after

\* saveProcessAnalysis: the rows after the first n extracted events are stored
RECURSIVE SaveEvents(_, _, _)
SaveEvents(rows, new, n) ==
    IF n = 0 THEN rows ELSE InsertRow(SaveEvents(rows, new, n - 1), new[n])

\* severityLevel as POST /api/analyze derives it
PostSeverity(complianceScore) ==
    IF complianceScore >= 70 THEN "low"
    ELSE IF complianceScore >= 50 THEN "medium"
    ELSE "high"

InitReports ==
    /\ events = <<>>
    /\ catalog = CatalogRows(<< <<"Hearing opened", "Decision announced">> >>)
    /\ caseTypeId \in {0, 1}
    /\ violations = <<>>
    /\ result = NoResult
    /\ selected = 0
    /\ runs = <<>>
    /\ report = NoReport
    /\ storedViolations = <<>>
    /\ status = "pending"
    /\ auditLog = <<>>
    /\ pc = "init"
    /\ BiasIdle

\* POST /api/analyze for the recording
PostAnalyze ==
    \E transcribed \in BOOLEAN, extracted \in ExtractedLists,
       aiScore \in AIScores, aiViolations \in AIViolationLists,
       aiRecommendations \in AIRecommendationLists :
        /\ Len(events) + Len(extracted) <= MaxEvents
        /\ Len(storedViolations) + Len(aiViolations) <= MaxViolations
        /\ IF ~transcribed
           THEN \* transcribeAudio throws: processTranscription sets 'error', 500
                /\ status' = "error"
                /\ pc' = "post_failed"
                /\ UNCHANGED <<events, report, storedViolations, runs>>
           ELSE /\ events' = SaveEvents(events, EventRows(extracted), Len(extracted))
                /\ report' = [exists |-> TRUE, id |-> 1, caseTypeId |-> report.caseTypeId,
                              complianceScore |-> aiScore,
                              riskScore |-> Max(0, 100 - aiScore),
                              severityLevel |-> PostSeverity(aiScore),
                              \* compliance.recommendations?.join('. ') || ''
                              recommendation |-> join(aiRecommendations, ". ")]
                /\ storedViolations' = storedViolations \o StoreAIViolations(aiViolations, 1)
                /\ status' = "completed"
                /\ runs' = IF extracted = <<>> THEN runs ELSE <<>>
                /\ pc' = "posted"
        /\ UNCHANGED <<catalog, violations, result, caseTypeId, selected, auditLog>>
        /\ UNCHANGED biasVars

NextReports == AnalyzeCompliance \/ PostAnalyze

SpecReports == InitReports /\ [][NextReports]_vars

\* ------------------------------------------------------------ bias detection

\* reduce((a, b) => a + b, 0)
RECURSIVE Sum(_)
Sum(list) == IF list = <<>> THEN 0 ELSE list[1] + Sum(Tail(list))

\* .filter(c => c.complianceReport).map(c => c.complianceReport.complianceScore)
ScoresOf(cases) ==
    LET scored == SelectSeq(cases, LAMBDA c : c.hasReport)
    IN  [i \in DOMAIN scored |-> scored[i].complianceScore]

\* Math.sqrt, rounded down to an integer
RECURSIVE SqrtBetween(_, _, _)
SqrtBetween(x, lo, hi) ==
    IF lo >= hi THEN lo
    ELSE LET mid == (lo + hi + 1) \div 2
         IN  IF mid * mid <= x THEN SqrtBetween(x, mid, hi) ELSE SqrtBetween(x, lo, mid - 1)

MathSqrt(x) == SqrtBetween(x, 0, Min(x, 46340))

\* a BiasIndicator; null is NoFlag. confidence and deviationScore are fractions:
\* the model holds them in thousandths, rounded down
Flag(check, confidence, deviationScore, comparisonData) ==
    [type |-> "personal", check |-> check, confidence |-> confidence,
     deviationScore |-> deviationScore, comparisonData |-> comparisonData]
NoFlag == [type |-> Null, check |-> Null, confidence |-> 0, deviationScore |-> 0,
           comparisonData |-> Null]

\* zScore = deviation / stdDev in thousandths, where deviation = |n * currentScore - S| / n
\* and stdDev = sqrt(n * Q - S * S) / n
zScore(scores, currentScore) ==
    LET n == Len(scores)
        S == Sum(scores)
        Q == Sum([i \in DOMAIN scores |-> scores[i] * scores[i]])
        gap == IF n * currentScore >= S THEN n * currentScore - S ELSE S - n * currentScore
    IN  IF n * Q - S * S > 0 THEN (gap * 100000) \div MathSqrt((n * Q - S * S) * 10000) ELSE 0

\* percentDiff = ((avgEvents - currentCount) / avgEvents) * 100 in thousandths
percentDiff(total, n, currentCount) == (100000 * (total - n * currentCount)) \div total

\* Math.abs(scoreDiff) in thousandths, for a negative scoreDiff
absScoreDiff(officialScores, allScores) ==
    (1000 * (Sum(allScores) * Len(officialScores) - Sum(officialScores) * Len(allScores)))
        \div (Len(officialScores) * Len(allScores))

\* the test with >= in place of >
ZScoreAtLeastTwo(scores, currentScore) ==
    LET n == Len(scores)
        S == Sum(scores)
        Q == Sum([i \in DOMAIN scores |-> scores[i] * scores[i]])
    IN  /\ n * Q - S * S > 0
        /\ (n * currentScore - S) * (n * currentScore - S) >= 4 * (n * Q - S * S)

\* zScore > 2, where zScore = stdDev > 0 ? deviation / stdDev : 0,
\* avgScore = S / n, stdDev = sqrt((Q - S * S / n) / n) and
\* deviation = |currentScore - S / n|: both sides squared and multiplied by n * n
ZScoreAboveTwo(scores, currentScore) ==
    LET n == Len(scores)
        S == Sum(scores)
        Q == Sum([i \in DOMAIN scores |-> scores[i] * scores[i]])
    IN  /\ n * Q - S * S > 0
        /\ (n * currentScore - S) * (n * currentScore - S) > 4 * (n * Q - S * S)

analyzeStatisticalAnomaly(currentReport, cases) ==
    IF Len(cases) < 5 THEN NoFlag
    ELSE LET scores == ScoresOf(cases)
         IN  IF Len(scores) < 5 THEN NoFlag
             ELSE IF ZScoreAboveTwo(scores, currentReport.complianceScore)
                  THEN Flag("statistical",
                            \* Math.min(0.5 + (zScore - 2) * 0.15, 0.95), zScore
                            Min(500 + ((zScore(scores, currentReport.complianceScore) - 2000) * 150)
                                          \div 1000, 950),
                            zScore(scores, currentReport.complianceScore),
                            [currentScore |-> currentReport.complianceScore,
                             sampleSize |-> Len(scores)])
                  ELSE NoFlag

\* the test with >= in place of >
PercentDiffAtLeastForty(total, n, currentCount) ==
    total > 0 /\ 100 * (total - n * currentCount) >= 40 * total

\* percentDiff > 40, where avgEvents = total / n and
\* percentDiff = ((avgEvents - currentCount) / avgEvents) * 100; with
\* avgEvents = 0 the quotient is -Infinity or NaN and the test is false
PercentDiffAboveForty(total, n, currentCount) ==
    total > 0 /\ 100 * (total - n * currentCount) > 40 * total

analyzeProceduralInconsistency(currentEvents, cases) ==
    IF Len(cases) < 3 THEN NoFlag
    ELSE LET eventCounts == [i \in DOMAIN cases |-> Len(cases[i].speakers)]
         IN  IF /\ PercentDiffAboveForty(Sum(eventCounts), Len(eventCounts), Len(currentEvents))
                /\ Len(currentEvents) > 0
             THEN LET pd == percentDiff(Sum(eventCounts), Len(eventCounts),
                                        Len(currentEvents))
                  IN  \* Math.min(0.5 + (percentDiff / 100) * 0.4, 0.85), percentDiff / 20
                      Flag("procedural", Min(500 + (pd * 4) \div 1000, 850), pd \div 20,
                           [currentEventCount |-> Len(currentEvents)])
             ELSE NoFlag

\* .map(e => e.speaker).filter(Boolean), as a set
Officials(speakers) ==
    {speakers[i] : i \in {j \in DOMAIN speakers : speakers[j] \notin {Null, ""}}}

\* a test on the distance of the two averages in either direction
ScoreDiffBeyondFifteen(officialScores, allScores) ==
    LET d == Sum(officialScores) * Len(allScores) - Sum(allScores) * Len(officialScores)
    IN  \/ d < -15 * Len(officialScores) * Len(allScores)
        \/ d > 15 * Len(officialScores) * Len(allScores)

\* scoreDiff < -15, where scoreDiff = avgOfficialScore - overallAvg: both
\* sides multiplied by the two (positive) lengths
ScoreDiffBelowMinusFifteen(officialScores, allScores) ==
    Sum(officialScores) * Len(allScores) - Sum(allScores) * Len(officialScores)
        < -15 * Len(officialScores) * Len(allScores)

analyzeOfficialBehavior(currentRecording, cases) ==
    LET currentOfficials == Officials(currentRecording.speakers)
        officialCases ==
            SelectSeq(cases, LAMBDA c : Officials(c.speakers) \cap currentOfficials # {})
        officialScores == ScoresOf(officialCases)
    IN  IF currentOfficials = {} THEN NoFlag
        ELSE IF Len(officialCases) < 3 THEN NoFlag
        ELSE IF Len(officialScores) < 3 THEN NoFlag
        ELSE IF ScoreDiffBelowMinusFifteen(officialScores, ScoresOf(cases))
             THEN LET d == absScoreDiff(officialScores, ScoresOf(cases))
                  IN  \* Math.min(0.5 + (|scoreDiff| / 30) * 0.35, 0.8), |scoreDiff| / 10
                      Flag("official", Min(500 + (d * 350) \div 30000, 800), d \div 10,
                           [officialCaseCount |-> Len(officialCases),
                            officials |-> currentOfficials])
             ELSE NoFlag

\* take: 50
Take == 50

Reverse(list) == [i \in DOMAIN list |-> list[Len(list) + 1 - i]]

\* getSimilarCases: rows are stored in creation order
getSimilarCases(currentRecording, store) ==
    LET matching ==
            SelectSeq(store, LAMBDA r : r.institution = currentRecording.institution
                                          /\ r.hasReport)
        newestFirst == Reverse(matching)
    IN  SubSeq(newestFirst, 1, Min(Take, Len(newestFirst)))

\* if (result) flags.push(result), for the three analyses in turn
PushFlags(results) == SelectSeq(results, LAMBDA f : f # NoFlag)

\* the sum of confidence * deviationScore * 20 over the flags, in millionths
RECURSIVE RiskSum(_)
RiskSum(flags) ==
    IF flags = <<>> THEN 0
    ELSE flags[1].confidence * flags[1].deviationScore * 20 + RiskSum(Tail(flags))

\* Math.floor in place of Math.round
MathFloor(millionths) == millionths \div 1000000

\* Math.round of a non-negative number of millionths: halves go up
MathRound(millionths) == (millionths + 500000) \div 1000000

calculateBiasRisk(flags) ==
    IF Len(flags) = 0 THEN 0 ELSE Min(MathRound(RiskSum(flags)), 100)

\* a guard that looks at the recording only
MissingRecordingOnly(store, id) == id \notin DOMAIN store

\* !recording || !recording.complianceReport
MissingRecordingOrReport(store, id) == id \notin DOMAIN store \/ ~store[id].hasReport

\* ------------------------------------- specification: the three bias analyses

\* comparison cases: scored and unscored, with and without named speakers
PeerKinds ==
    << [institution |-> "A", hasReport |-> TRUE, complianceScore |-> 20,
        speakers |-> <<"judge", "judge", Null, Null, Null>>],
       [institution |-> "A", hasReport |-> TRUE, complianceScore |-> 80,
        speakers |-> <<Null, Null, Null, Null, Null>>],
       [institution |-> "A", hasReport |-> TRUE, complianceScore |-> 50,
        speakers |-> <<>>],
       [institution |-> "A", hasReport |-> FALSE, complianceScore |-> 0,
        speakers |-> <<"judge">>],
       [institution |-> "A", hasReport |-> TRUE, complianceScore |-> 50,
        speakers |-> <<"clerk", "">>],
       [institution |-> "A", hasReport |-> TRUE, complianceScore |-> 100,
        speakers |-> <<"judge">>] >>

\* the recordings analysed
CurrentKinds ==
    [institution : {"A"}, hasReport : {TRUE}, complianceScore : {20, 50, 100},
     speakers : {<<>>, <<"judge">>, <<Null, "">>, <<"judge", Null, "clerk">>}]

\* rows with ids 1, 2, ... in creation order
RecordingRows(kinds) ==
    [i \in DOMAIN kinds |->
        [id |-> i, institution |-> kinds[i].institution, hasReport |-> kinds[i].hasReport,
         complianceScore |-> kinds[i].complianceScore, speakers |-> kinds[i].speakers]]

\* counts[k] copies of each of the first k kinds, one kind after the other
RECURSIVE Copies(_, _)
Copies(counts, k) ==
    IF k = 0 THEN <<>>
    ELSE Copies(counts, k - 1) \o [i \in 1..counts[k] |-> PeerKinds[k]]

PeerLists ==
    {Copies(counts, Len(PeerKinds)) :
        counts \in {c \in [DOMAIN PeerKinds -> 0..MaxPeers] :
                        Sum([k \in DOMAIN PeerKinds |-> c[k]]) <= MaxPeers}}

EngineIdle ==
    /\ events = <<>>
    /\ catalog = <<>>
    /\ violations = <<>>
    /\ result = NoResult
    /\ caseTypeId = 0
    /\ selected = 0
    /\ runs = <<>>
    /\ report = NoReport
    /\ storedViolations = <<>>
    /\ status = "completed"
    /\ auditLog = <<>>

InitBiasChecks ==
    /\ EngineIdle
    /\ pc = "init"
    /\ recordings = <<>>
    /\ biasFlags = <<>>
    /\ current \in {[id |-> 0, institution |-> k.institution, hasReport |-> k.hasReport,
                      complianceScore |-> k.complianceScore, speakers |-> k.speakers] :
                        k \in CurrentKinds}
    /\ similarCases \in {RecordingRows(list) : list \in PeerLists}
    /\ biasResult = NoBiasResult

\* analyzeStatisticalAnomaly(recording.complianceReport, similarCases)
StatisticalAnomaly ==
    /\ biasResult' = [outcome |-> "ok", recordingId |-> current.id,
                      flags |-> PushFlags(<<analyzeStatisticalAnomaly(current, similarCases)>>)]
    /\ pc' = "statistical"
    /\ UNCHANGED <<engineVars, recordings, biasFlags, current, similarCases>>

\* analyzeProceduralInconsistency(recording.processEvents, similarCases)
ProceduralInconsistency ==
    /\ biasResult' = [outcome |-> "ok", recordingId |-> current.id,
                      flags |-> PushFlags(<<analyzeProceduralInconsistency(current.speakers,
                                                                           similarCases)>>)]
    /\ pc' = "procedural"
    /\ UNCHANGED <<engineVars, recordings, biasFlags, current, similarCases>>

\* analyzeOfficialBehavior(recording, similarCases)
OfficialBehavior ==
    /\ biasResult' = [outcome |-> "ok", recordingId |-> current.id,
                      flags |-> PushFlags(<<analyzeOfficialBehavior(current, similarCases)>>)]
    /\ pc' = "official"
    /\ UNCHANGED <<engineVars, recordings, biasFlags, current, similarCases>>

NextBiasChecks == StatisticalAnomaly \/ ProceduralInconsistency \/ OfficialBehavior

SpecBiasChecks == InitBiasChecks /\ [][NextBiasChecks]_vars

\* ------------------------------------------------- specification: analyzeBias

\* recordings of two institutions, with and without a compliance report
StoreKinds ==
    {[institution |-> "A", hasReport |-> TRUE, complianceScore |-> 50,
      speakers |-> <<"judge", Null, Null, Null, Null>>],
     [institution |-> "A", hasReport |-> TRUE, complianceScore |-> 50,
      speakers |-> <<"judge">>],
     [institution |-> "A", hasReport |-> FALSE, complianceScore |-> 0, speakers |-> <<>>],
     [institution |-> "B", hasReport |-> TRUE, complianceScore |-> 80, speakers |-> <<>>]}

InitBias ==
    /\ EngineIdle
    /\ pc = "init"
    /\ recordings \in {RecordingRows(kinds) : kinds \in SeqsUpTo(StoreKinds, MaxRecordings)}
    /\ biasFlags = <<>>
    /\ current = NoRecording
    /\ similarCases = <<>>
    /\ biasResult = NoBiasResult

\* a loop that stops before the last flag
StoreAllButLast(flags, reportId) ==
    [i \in 1..(Len(flags) - 1) |->
        [complianceReportId |-> reportId, type |-> flags[i].type,
         check |-> flags[i].check,
         confidence |-> flags[i].confidence,
         deviationScore |-> flags[i].deviationScore,
         comparisonData |-> flags[i].comparisonData]]

\* for (const flag of flags) await prisma.biasFlag.create(...): the rows created
StoreFlags(flags, reportId) ==
    [i \in DOMAIN flags |->
        [complianceReportId |-> reportId, type |-> flags[i].type,
         check |-> flags[i].check,
         confidence |-> flags[i].confidence,
         deviationScore |-> flags[i].deviationScore,
         comparisonData |-> flags[i].comparisonData]]

\* analyzeBias(recordingId); the report of recording i has id i
AnalyzeBias ==
    /\ Len(biasFlags) < MaxBiasFlags
    /\ \E id \in 1..(Len(recordings) + 1) :
          IF MissingRecordingOrReport(recordings, id)
          THEN \* throw new Error('Recording or compliance report not found')
               /\ biasResult' = [outcome |-> "error", recordingId |-> id, flags |-> <<>>,
                                 overallBiasRisk |-> 0, isAnomaly |-> FALSE]
               /\ pc' = "bias_failed"
               /\ UNCHANGED <<biasFlags, current, similarCases>>
          ELSE LET recording == recordings[id]
                   cases == getSimilarCases(recording, recordings)
                   flags == PushFlags(<<analyzeStatisticalAnomaly(recording, cases),
                                        analyzeProceduralInconsistency(recording.speakers, cases),
                                        analyzeOfficialBehavior(recording, cases)>>)
               IN  /\ current' = recording
                   /\ similarCases' = cases
                   /\ biasFlags' = biasFlags \o StoreFlags(flags, id)
                   /\ biasResult' = [outcome |-> "ok", recordingId |-> id, flags |-> flags,
                                     overallBiasRisk |-> calculateBiasRisk(flags),
                                     isAnomaly |-> calculateBiasRisk(flags) > 50]
                   /\ pc' = "bias_analyzed"
    /\ UNCHANGED <<engineVars, recordings>>

NextBias == AnalyzeBias

SpecBias == InitBias /\ [][NextBias]_vars

\* ------------------------------------------------------------ the pipeline
\* POST /api/analyze statement by statement: processTranscription,
\* reconstructProcess, the report, the violations and the final status; a
\* call that rejects inside processTranscription or reconstructProcess is
\* caught there, any other by the catch of the route

InitPipeline ==
    /\ events = <<>>
    /\ catalog = <<>>
    /\ caseTypeId = 0
    /\ violations = <<>>
    /\ result = NoResult
    /\ selected = 0
    /\ runs = <<>>
    /\ report = NoReport
    /\ storedViolations = <<>>
    /\ status = "pending"
    /\ auditLog = <<>>
    /\ pc = "init"
    /\ BiasIdle

\* processTranscription: recording.update({ status: 'transcribing' })
BeginTranscription ==
    /\ pc = "init"
    /\ status' = "transcribing"
    /\ pc' = "transcribing"
    /\ UNCHANGED <<events, catalog, violations, result, caseTypeId, selected, runs, report,
                   storedViolations, auditLog>>
    /\ UNCHANGED biasVars

\* transcribeAudio, diarizeSpeakers and saveTranscription return
SaveTranscription ==
    /\ pc = "transcribing"
    /\ status' = "transcribed"
    /\ pc' = "transcribed"
    /\ UNCHANGED <<events, catalog, violations, result, caseTypeId, selected, runs, report,
                   storedViolations, auditLog>>
    /\ UNCHANGED biasVars

\* reconstructProcess: recording.update({ status: 'analyzing' })
BeginReconstruction ==
    /\ pc = "transcribed"
    /\ status' = "analyzing"
    /\ pc' = "analyzing"
    /\ UNCHANGED <<events, catalog, violations, result, caseTypeId, selected, runs, report,
                   storedViolations, auditLog>>
    /\ UNCHANGED biasVars

\* extractLegalEvents and saveProcessAnalysis return
SaveProcessAnalysis ==
    /\ pc = "analyzing"
    /\ \E extracted \in ExtractedLists :
          /\ Len(events) + Len(extracted) <= MaxEvents
          /\ events' = SaveEvents(events, EventRows(extracted), Len(extracted))
    /\ status' = "analyzed"
    /\ pc' = "reconstructed"
    /\ UNCHANGED <<catalog, violations, result, caseTypeId, selected, runs, report,
                   storedViolations, auditLog>>
    /\ UNCHANGED biasVars

\* the catch blocks of processTranscription and reconstructProcess:
\* recording.update({ status: 'error' }) and the error thrown on to the route
StepFailsInsideTry ==
    /\ pc \in {"transcribing", "analyzing"}
    /\ status' = "error"
    /\ pc' = "post_failed"
    /\ UNCHANGED <<events, catalog, violations, result, caseTypeId, selected, runs, report,
                   storedViolations, auditLog>>
    /\ UNCHANGED biasVars

\* lines 48-90 of the route: the case type, analyzeComplianceWithAI and
\* complianceReport.upsert
UpsertReport ==
    /\ pc = "reconstructed"
    /\ \E aiScore \in AIScores, aiViolations \in AIViolationLists,
          aiRecommendations \in AIRecommendationLists :
          /\ violations' = aiViolations
          /\ report' = [exists |-> TRUE, id |-> 1, caseTypeId |-> report.caseTypeId,
                         complianceScore |-> aiScore,
                         riskScore |-> Max(0, 100 - aiScore),
                         severityLevel |-> PostSeverity(aiScore),
                         recommendation |-> join(aiRecommendations, ". ")]
    /\ pc' = "report_upserted"
    /\ UNCHANGED <<events, catalog, result, caseTypeId, selected, runs, storedViolations,
                   status, auditLog>>
    /\ UNCHANGED biasVars

\* lines 92-101 of the route, one pass of the loop
CreateAIViolation ==
    /\ pc = "report_upserted"
    /\ Len(storedViolations) < Len(violations)
    /\ storedViolations' =
          storedViolations \o
              StoreAIViolations(<<violations[Len(storedViolations) + 1]>>, report.id)
    /\ UNCHANGED <<events, catalog, violations, result, caseTypeId, selected, runs, report,
                   status, auditLog, pc>>
    /\ UNCHANGED biasVars

\* lines 104-125: recording.update({ status: 'completed' }) and the response
CompleteStatus ==
    /\ pc = "report_upserted"
    /\ Len(storedViolations) = Len(violations)
    /\ status' = "completed"
    /\ pc' = "posted"
    /\ UNCHANGED <<events, catalog, violations, result, caseTypeId, selected, runs, report,
                   storedViolations, auditLog>>
    /\ UNCHANGED biasVars

\* lines 127-133: a call outside the two try blocks rejects (the first
\* status update of either function, or a statement of the route after
\* reconstructProcess); the route answers 500 and writes nothing
StepFailsInRoute ==
    /\ pc \in {"init", "transcribed", "reconstructed", "report_upserted"}
    /\ pc' = "post_failed"
    /\ UNCHANGED <<engineVars, biasVars>>

NextPipeline ==
    BeginTranscription \/ SaveTranscription \/ BeginReconstruction \/ SaveProcessAnalysis
        \/ StepFailsInsideTry \/ UpsertReport \/ CreateAIViolation \/ CompleteStatus
        \/ StepFailsInRoute

SpecPipeline == InitPipeline /\ [][NextPipeline]_vars

\* ------------------------------------------------------------ the audit log
\* concurrent requests writing the audit log: uploads and analyses through
\* createAuditLog, which reads the latest entry and then creates its own in
\* two separate database calls, and expert corrections through
\* storeCorrection. In this specification pc holds, per request, where the
\* request stands and what it read

Writers == 1..MaxWriters

Idle == [at |-> "idle", action |-> Null, previousHash |-> Null]

\* the row created at lines 45-71 of createAuditLog from what was read
AuditRow(previousHash, action, entityType, details) ==
    LET entryData == [action |-> action, entityType |-> entityType,
                      details |-> details, previousHash |-> previousHash]
    IN  [action |-> action, entityType |-> entityType, details |-> details,
         previousHash |-> previousHash, entryHash |-> Sha256(entryData)]

\* findFirst({ orderBy: { createdAt: 'desc' } }) and previousLog?.entryHash || null
LatestEntryHash(log) == IF Len(log) = 0 THEN Null ELSE log[Len(log)].entryHash

\* the entries written plus those whose request has read and not yet written
Pending == Cardinality({w \in Writers : pc[w].at = "read"})

InitAudit ==
    /\ events = <<>>
    /\ catalog = <<>>
    /\ violations = <<>>
    /\ result = NoResult
    /\ caseTypeId = 0
    /\ selected = 0
    /\ runs = <<>>
    /\ report = NoReport
    /\ storedViolations = <<>>
    /\ status = "pending"
    /\ auditLog = <<>>
    /\ pc = [w \in Writers |-> Idle]
    /\ BiasIdle

\* lines 42-45 of createAuditLog, in an upload or an analysis
ReadPreviousLog(w) ==
    /\ pc[w].at = "idle"
    /\ Len(auditLog) + Pending < MaxAuditEntries
    /\ \E action \in {"upload", "analyze"} :
          pc' = [pc EXCEPT ![w] = [at |-> "read", action |-> action,
                                   previousHash |-> LatestEntryHash(auditLog)]]
    /\ UNCHANGED <<engineVars, biasVars>>

\* lines 48-71 of createAuditLog
CreateAuditEntry(w) ==
    /\ pc[w].at = "read"
    /\ auditLog' = Append(auditLog,
                          AuditRow(pc[w].previousHash, pc[w].action,
                                   IF pc[w].action = "upload" THEN "recording" ELSE "report",
                                   "request " \o ToString(w)))
    /\ pc' = [pc EXCEPT ![w] = Idle]
    /\ UNCHANGED <<events, catalog, violations, result, caseTypeId, selected, runs, report,
                   storedViolations, status>>
    /\ UNCHANGED biasVars

\* storeCorrection: auditLog.create without previousHash and entryHash
StoreCorrection(w) ==
    /\ pc[w].at = "idle"
    /\ Len(auditLog) + Pending < MaxAuditEntries
    /\ auditLog' = Append(auditLog,
                          [action |-> "expert_correction", entityType |-> "transcript",
                           details |-> "request " \o ToString(w),
                           previousHash |-> Null, entryHash |-> Null])
    /\ UNCHANGED <<events, catalog, violations, result, caseTypeId, selected, runs, report,
                   storedViolations, status, pc>>
    /\ UNCHANGED biasVars

NextAudit ==
    \E w \in Writers : ReadPreviousLog(w) \/ CreateAuditEntry(w) \/ StoreCorrection(w)

SpecAudit == InitAudit /\ [][NextAudit]_vars

\* ------------------------------------------------------------ the writes
\* analyzeCompliance statement by statement: each await is a step, and a
\* rejected database call ends the run

WriteEventKinds ==
    {[action |-> "Hearing opened", legalReference |-> Null, timestamp |-> Null],
     [action |-> "Decision announced", legalReference |-> Null, timestamp |-> Null]}

InitWrites ==
    /\ events \in {EventRows(kinds) : kinds \in SeqsUpTo(WriteEventKinds, MaxEvents)}
    /\ catalog \in {<< [id |-> 1, requiredSteps |-> ListField(steps),
                         forbiddenActions |-> NullField] >> :
                        steps \in SeqsUpTo(StepTexts, MaxSteps)}
    /\ caseTypeId = 1
    /\ violations = <<>>
    /\ result = NoResult
    /\ selected = 0
    /\ runs = <<>>
    /\ report = NoReport
    /\ storedViolations = <<>>
    /\ status = "analyzed"
    /\ auditLog = <<>>
    /\ pc = "init"
    /\ BiasIdle

\* lines 33-85: the events, the case type, the checks, the scores and the texts
RunChecks ==
    /\ pc \in {"init", "analyzed", "threw"}
    /\ Len(runs) < MaxRuns
    /\ \E a \in {Analysis(events, catalog, caseTypeId)} :
          IF a.raised
          THEN /\ pc' = "raised"
               /\ UNCHANGED <<violations, runs, selected>>
          ELSE /\ violations' = a.violations
               /\ runs' = Append(runs, a.violations)
               /\ selected' = a.caseTypeId
               /\ pc' = "checked"
    /\ UNCHANGED <<events, catalog, caseTypeId, result, report, storedViolations, status,
                   auditLog>>
    /\ UNCHANGED biasVars

\* lines 88-98: complianceReport.create; recordingId is unique, the call
\* throws when the recording has a report
CreateReport ==
    /\ pc = "checked"
    /\ IF report.exists
       THEN /\ pc' = "threw"
            /\ UNCHANGED report
       ELSE \E a \in {Analysis(events, catalog, caseTypeId)} :
               /\ report' = [exists |-> TRUE, id |-> 1, caseTypeId |-> a.caseTypeId,
                              complianceScore |-> a.scores.complianceScore,
                              riskScore |-> a.scores.riskScore,
                              severityLevel |-> a.scores.severityLevel,
                              recommendation |-> a.recommendation]
               /\ pc' = "report_created"
    /\ UNCHANGED <<events, catalog, caseTypeId, violations, result, selected, runs,
                   storedViolations, status, auditLog>>
    /\ UNCHANGED biasVars

\* a statement after the report was created
StatusUpdateAfterReport(stored, vs) == TRUE

\* the statement after the loop at lines 101-113: every violation has its row
StatusUpdateAfterLoop(stored, vs) == Len(stored) = Len(vs)

\* lines 101-113, one pass of the loop: violation.create
CreateViolation ==
    /\ pc = "report_created"
    /\ Len(storedViolations) < Len(violations)
    /\ storedViolations' =
          Append(storedViolations,
                 ViolationRow(violations[Len(storedViolations) + 1], report.id))
    /\ UNCHANGED <<events, catalog, caseTypeId, violations, result, selected, runs, report,
                   status, auditLog, pc>>
    /\ UNCHANGED biasVars

\* lines 116-119: recording.update({ status: 'completed' })
UpdateStatus ==
    /\ pc = "report_created"
    /\ StatusUpdateAfterLoop(storedViolations, violations)
    /\ status' = "completed"
    /\ pc' = "status_updated"
    /\ UNCHANGED <<events, catalog, caseTypeId, violations, result, selected, runs, report,
                   storedViolations, auditLog>>
    /\ UNCHANGED biasVars

\* lines 122-145: createAuditLog and the return
WriteAuditLog ==
    /\ pc = "status_updated"
    /\ \E a \in {Analysis(events, catalog, caseTypeId)} :
          /\ auditLog' = Append(auditLog,
                 AuditEntry(auditLog, "analyze", "report",
                            ToString(a.scores.complianceScore) \o "/"
                               \o ToString(a.scores.riskScore) \o "/"
                               \o ToString(Len(a.violations))))
          /\ result' = a.scores
    /\ pc' = "analyzed"
    /\ UNCHANGED <<events, catalog, caseTypeId, violations, selected, runs, report,
                   storedViolations, status>>
    /\ UNCHANGED biasVars

\* a database call of lines 88-133 rejects: the function throws
WriteRejected ==
    /\ pc \in {"checked", "report_created", "status_updated"}
    /\ pc' = "threw"
    /\ UNCHANGED <<engineVars, biasVars>>

NextWrites ==
    RunChecks \/ CreateReport \/ CreateViolation \/ UpdateStatus \/ WriteAuditLog
        \/ WriteRejected

SpecWrites == InitWrites /\ [][NextWrites]_vars

\* ------------------------------------------------------------ recommendations
\* generateRecommendation over violation lists of every type

ViolationTypes ==
    {"missing_step", "wrong_order", "informal_decision", "no_justification", "retroactive"}

TypedViolation(type, severity) == Violation(type, "a violation", severity, Null, Null, Null)

\* violations.push(...) of the checks
PushTyped ==
    /\ pc \in {"init", "push"}
    /\ Len(violations) < MaxRecommended
    /\ \E type \in ViolationTypes, s \in {"medium", "high", "critical"} :
          violations' = Append(violations, TypedViolation(type, s))
    /\ pc' = "push"
    /\ UNCHANGED <<events, catalog, result, caseTypeId, selected, runs, report, storedViolations,
                   status, auditLog>>
    /\ UNCHANGED biasVars

\* const recommendation = generateRecommendation(violations)
Recommend ==
    /\ pc \in {"init", "push"}
    /\ report' = [report EXCEPT !.recommendation = generateRecommendation(violations)]
    /\ pc' = "recommended"
    /\ UNCHANGED <<events, catalog, violations, result, caseTypeId, selected, runs,
                   storedViolations, status, auditLog>>
    /\ UNCHANGED biasVars

NextRecommend == PushTyped \/ Recommend

SpecRecommend == InitScore /\ [][NextRecommend]_vars

\* ------------------------------------------------------------ severities
\* analyzeCompliance on catalogs whose steps carry the severity keywords

SeverityCatalogs ==
    {<< [id |-> 1, requiredSteps |-> ListField(steps), forbiddenActions |-> NullField] >> :
        steps \in SeqsUpTo(SeverityTexts \cup {"Hearing opened"}, MaxSteps)}

InitSeverity ==
    /\ events \in {EventRows(kinds) :
                     kinds \in SeqsUpTo({[action |-> "Hearing opened",
                                          legalReference |-> "Art. 1", timestamp |-> 10]}, 1)}
    /\ catalog \in SeverityCatalogs
    /\ caseTypeId = 1
    /\ violations = <<>>
    /\ result = NoResult
    /\ selected = 0
    /\ runs = <<>>
    /\ report = NoReport
    /\ storedViolations = <<>>
    /\ status = "analyzed"
    /\ auditLog = <<>>
    /\ pc = "init"
    /\ BiasIdle

SpecSeverity == InitSeverity /\ [][NextChecks]_vars

\* ------------------------------------------------------------ the bias risk
\* calculateBiasRisk over lists of indicators

\* indicators as the three analyses return them: confidence from 0.5 up to the
\* analysis' cap, deviationScore above its threshold
SampleFlags ==
    {Flag("procedural", 500, 2500, Null), Flag("procedural", 550, 2500, Null),
     Flag("procedural", 500, 5000, Null), Flag("statistical", 950, 5000, Null),
     Flag("official", 800, 3200, Null), Flag("procedural", 850, 2100, Null)}

InitBiasRisk ==
    /\ EngineIdle
    /\ pc = "init"
    /\ recordings = <<>>
    /\ biasFlags = <<>>
    /\ current = NoRecording
    /\ similarCases = <<>>
    /\ biasResult \in {[NoBiasResult EXCEPT !.flags = fs] : fs \in SeqsUpTo(SampleFlags, MaxFlags)}

\* const overallBiasRisk = calculateBiasRisk(flags);
\* const isAnomaly = overallBiasRisk > 50
BiasRisk ==
    /\ pc = "init"
    /\ biasResult' = [biasResult EXCEPT !.outcome = "ok",
                                         !.overallBiasRisk = calculateBiasRisk(biasResult.flags),
                                         !.isAnomaly = calculateBiasRisk(biasResult.flags) > 50]
    /\ pc' = "risk"
    /\ UNCHANGED <<engineVars, recordings, biasFlags, current, similarCases>>

NextBiasRisk == BiasRisk

SpecBiasRisk == InitBiasRisk /\ [][NextBiasRisk]_vars

\* ------------------------------------------------------------ C1, C3, C4

CountOf(vs, severity) == Cardinality({i \in DOMAIN vs : vs[i].severity = severity})

ComplianceDeltaSum(vs) ==
    25 * CountOf(vs, "critical") + 15 * CountOf(vs, "high")
        + 8 * CountOf(vs, "medium") + 3 * CountOf(vs, "low")

RiskDeltaSum(vs) ==
    30 * CountOf(vs, "critical") + 20 * CountOf(vs, "high")
        + 10 * CountOf(vs, "medium") + 5 * CountOf(vs, "low")

\* C1: for every violation list the scores calculateScores returns are
\* complianceScore = max(0, 100 - sum of the compliance deltas) and
\* riskScore = min(100, sum of the risk deltas), with the deltas
\* critical 25/30, high 15/20, medium 8/10, low 3/5, whatever totalEvents is.
C1_ScoresFollowDeltaTable ==
    /\ pc = "scored" =>
          /\ result.complianceScore = Max(0, 100 - ComplianceDeltaSum(violations))
          /\ result.riskScore = Min(100, RiskDeltaSum(violations))
    /\ \A totalEvents \in 0..MaxScoredEvents :
          calculateScores(violations, totalEvents) = calculateScores(violations, 0)

C1_Witness ==
    /\ pc = "scored"
    /\ \A s \in Severities : CountOf(violations, s) >= 1
    /\ RiskDeltaSum(violations) > 100
    /\ result.riskScore = 100
    /\ result.complianceScore = 100 - ComplianceDeltaSum(violations)

HasSeverity(vs, severity) == \E i \in DOMAIN vs : vs[i].severity = severity

\* C3: the tier calculateScores returns is critical if riskScore >= 70 or a
\* violation is critical; otherwise high if riskScore >= 50 or a violation is
\* high; otherwise medium if riskScore >= 25; otherwise low. A list holding
\* a critical violation always yields critical.
C3_SeverityTier ==
    pc = "scored" =>
        /\ result.severityLevel =
              (IF result.riskScore >= 70 \/ HasSeverity(violations, "critical")
                   THEN "critical"
               ELSE IF result.riskScore >= 50 \/ HasSeverity(violations, "high")
                   THEN "high"
               ELSE IF result.riskScore >= 25 THEN "medium"
               ELSE "low")
        /\ HasSeverity(violations, "critical") => result.severityLevel = "critical"

C3_Witness ==
    /\ pc = "scored"
    /\ CountOf(violations, "critical") = 1
    /\ result.riskScore < 50
    /\ result.severityLevel = "critical"

Rank(severity) ==
    CASE severity = "low" -> 0
      [] severity = "medium" -> 1
      [] severity = "high" -> 2
      [] severity = "critical" -> 3

AppendsCritical ==
    /\ violations' = Append(violations, SampleViolation("critical"))
    /\ pc' = "push"

\* C4: appending one more critical violation to a violation list never
\* decreases riskScore, never increases complianceScore and never moves
\* severityLevel to a lower tier.
C4_CriticalIsMonotone ==
    [][AppendsCritical =>
          \A totalEvents \in 0..MaxScoredEvents :
              LET before == calculateScores(violations, totalEvents)
                  after == calculateScores(violations', totalEvents)
              IN  /\ after.riskScore >= before.riskScore
                  /\ after.complianceScore <= before.complianceScore
                  /\ Rank(after.severityLevel) >= Rank(before.severityLevel)]_vars

C4_Witness ==
    /\ pc = "push"
    /\ Len(violations) >= 2
    /\ violations[Len(violations)].severity = "critical"
    /\ violations[Len(violations) - 1].severity = "critical"
    /\ calculateScores(violations, 0).riskScore
          > calculateScores(SubSeq(violations, 1, Len(violations) - 1), 0).riskScore

\* ------------------------------------------------------------ C5 .. C9

Ran == pc \in {"analyzed", "threw"}

\* the required steps of the case type the last run resolved
ResolvedSteps ==
    IF selected = 0 THEN <<>>
    ELSE ParseList(catalog[findUniqueCaseType(catalog, selected)].requiredSteps)

OfType(vs, type) == SelectSeq(vs, LAMBDA v : v.type = type)

C6_Events ==
    << [stepNumber |-> 1, action |-> "Hearing opened", legalReference |-> Null,
        timestamp |-> Null],
       [stepNumber |-> 2, action |-> "Decision announced", legalReference |-> Null,
        timestamp |-> Null] >>

C6_Scenario ==
    /\ pc = "analyzed"
    /\ events = C6_Events
    /\ selected # 0
    /\ ResolvedSteps = <<"Rights reading", "Hearing opened", "Decision announced">>
    /\ ParseList(catalog[findUniqueCaseType(catalog, selected)].forbiddenActions) = <<>>

\* C6: events [step 1 "Hearing opened", step 2 "Decision announced" without
\* legalReference] against requiredSteps ["Rights reading", "Hearing opened",
\* "Decision announced"] and no forbidden actions give exactly one critical
\* missing_step for "Rights reading" and one medium no_justification, and
\* complianceScore 67, riskScore 40, severityLevel critical.
C6_EndToEnd ==
    C6_Scenario =>
        /\ Len(violations) = 2
        /\ violations[1].type = "missing_step"
        /\ violations[1].severity = "critical"
        /\ violations[1].violatedRule = "Required procedure step: Rights reading"
        /\ violations[2].type = "no_justification"
        /\ violations[2].severity = "medium"
        /\ result = [complianceScore |-> 67, riskScore |-> 40, severityLevel |-> "critical"]
        /\ report.complianceScore = 67 /\ report.riskScore = 40
        /\ report.severityLevel = "critical"

C6_Witness == C6_Scenario /\ Len(violations) = 2

\* case-insensitive containment in either direction over the 15-character prefix
ContainsEitherWay(action, step) ==
    LET a == toLowerCase(action)
        t == toLowerCase(step)
    IN  \/ IncludesAt(a, substring(t, 15))
        \/ IncludesAt(t, substring(a, 15))

Unmatched(step) == \A i \in DOMAIN events : ~ContainsEitherWay(events[i].action, step)

\* C7: checkMissingSteps emits exactly one missing_step violation for every
\* required step that no event action matches, none for a step that an
\* event matches, in catalog order.
C7_OneMissingStepPerUnmatchedStep ==
    (Ran /\ selected # 0) =>
        LET missing == OfType(violations, "missing_step")
            unmatched == SelectSeq(ResolvedSteps, Unmatched)
        IN  /\ Len(missing) = Len(unmatched)
            /\ \A k \in DOMAIN missing :
                  missing[k].violatedRule = "Required procedure step: " \o unmatched[k]

C7_Witness ==
    /\ Ran /\ selected # 0
    /\ Len(ResolvedSteps) = 3
    /\ Len(OfType(violations, "missing_step")) = 1
    /\ \E k \in DOMAIN ResolvedSteps, i \in DOMAIN events :
          /\ ~IncludesAt(toLowerCase(events[i].action), toLowerCase(ResolvedSteps[k]))
          /\ IncludesAt(toLowerCase(ResolvedSteps[k]), toLowerCase(events[i].action))
          /\ events[i].action # ""
          /\ \A j \in DOMAIN events :
                j # i => ~ContainsEitherWay(events[j].action, ResolvedSteps[k])

\* String.prototype.trim() leaves nothing
RECURSIVE IsBlank(_)
IsBlank(s) == Len(s) = 0 \/ (SubSeq(s, 1, 1) = " " /\ IsBlank(SubSeq(s, 2, Len(s))))

ReportedMissing(step) ==
    \E k \in DOMAIN violations :
        /\ violations[k].type = "missing_step"
        /\ violations[k].violatedRule = "Required procedure step: " \o step

\* C8: an event whose action is empty or whitespace-only never makes a
\* required step count as found, and an empty or whitespace-only required
\* step or forbidden action matches no event.
C8_BlankTextNeverMatches ==
    (Ran /\ selected # 0) =>
        /\ \A k \in DOMAIN ResolvedSteps :
              (\A i \in DOMAIN events :
                    \/ IsBlank(events[i].action)
                    \/ ~ContainsEitherWay(events[i].action, ResolvedSteps[k]))
                 => ReportedMissing(ResolvedSteps[k])
        /\ \A k \in DOMAIN ResolvedSteps :
              IsBlank(ResolvedSteps[k]) => ReportedMissing(ResolvedSteps[k])
        /\ \A k \in DOMAIN violations :
              violations[k].type = "informal_decision" /\ violations[k].severity = "high"
                 => violations[k].description # "Forbidden action detected: \"\""

\* the catalog position checkStepOrder attributes to an event (0: none)
FoundPosition(n) ==
    LET hits == {i \in DOMAIN ResolvedSteps :
                    IncludesAt(toLowerCase(events[n].action),
                               substring(toLowerCase(ResolvedSteps[i]), 15))}
    IN  IF hits = {} THEN 0 ELSE CHOOSE i \in hits : \A j \in hits : i <= j

\* adjacent pairs of the found subsequence whose later step is earlier in
\* the catalog, pos being the catalog position of every event
Inversions(pos) ==
    LET found == {n \in DOMAIN pos : pos[n] # 0}
    IN  {p \in found \X found :
            /\ p[1] < p[2]
            /\ \A n \in found : ~(p[1] < n /\ n < p[2])
            /\ pos[p[2]] < pos[p[1]]}

PairScore(c) ==
    LET steps == ParseList(catalog[c].requiredSteps)
    IN  Cardinality({p \in (DOMAIN events) \X (DOMAIN steps) :
            IncludesAt(toLowerCase(events[p[1]].action),
                       substring(toLowerCase(steps[p[2]]), 10))})

BestScore == CHOOSE m \in {PairScore(c) : c \in DOMAIN catalog} :
                 \A c \in DOMAIN catalog : PairScore(c) <= m

\* detection decides: no caseTypeId was given, or none of the catalog has it
Detected == Ran /\ (caseTypeId = 0 \/ \A c \in DOMAIN catalog : catalog[c].id # caseTypeId)

\* C10: detectBestMatchingCaseType returns the first candidate in catalog
\* order whose score equals the maximum score when that maximum is greater
\* than zero, and nothing when the catalog is empty or every score is zero.
C10_FirstBestCaseType ==
    Detected =>
        IF catalog = <<>> \/ BestScore = 0
        THEN selected = 0
        ELSE \E c \in DOMAIN catalog :
                /\ selected = catalog[c].id
                /\ PairScore(c) = BestScore
                /\ \A b \in 1..(c - 1) : PairScore(b) < BestScore

C10_Witness ==
    /\ Detected
    /\ Len(catalog) = 3
    /\ selected = catalog[2].id
    /\ PairScore(1) > 0
    /\ PairScore(3) = PairScore(2)

C10_WitnessNone ==
    /\ Detected
    /\ Len(catalog) >= 2
    /\ Len(events) >= 1
    /\ selected = 0

\* ------------------------------------------------------------------- C11

\* the forbidden-action texts of the case type the last run resolved
ResolvedForbidden ==
    IF selected = 0 THEN <<>>
    ELSE ParseList(catalog[findUniqueCaseType(catalog, selected)].forbiddenActions)

ActionHas(n, text) == IncludesAt(LowerChars(events[n].action), text)

\* events whose action matches at least one forbidden-action text
ForbiddenEvents ==
    {n \in DOMAIN events :
        \E k \in DOMAIN ResolvedForbidden :
            ActionHas(n, substring(LowerChars(ResolvedForbidden[k]), 15))}

HighInformal ==
    SelectSeq(violations, LAMBDA v : v.type = "informal_decision" /\ v.severity = "high")

EvidenceTimeOf(n) ==
    IF events[n].timestamp \in {Null, ""} THEN Null ELSE events[n].timestamp

\* C11: checkForbiddenActions emits one informal_decision violation of
\* severity high, carrying the event's action text and timestamp, for each
\* event matching any forbidden-action text and nothing for the other
\* events: as many violations as there are events matching at least one
\* forbidden action.
C11_OneViolationPerForbiddenEvent ==
    (Ran /\ selected # 0) =>
        /\ Len(HighInformal) = Cardinality(ForbiddenEvents)
        /\ \A k \in DOMAIN HighInformal :
              \E n \in ForbiddenEvents :
                  /\ HighInformal[k].evidenceText = events[n].action
                  /\ HighInformal[k].evidenceTime = EvidenceTimeOf(n)

\* ------------------------------------------------------------------- C12

DecisionEvents == {n \in DOMAIN events : ActionHas(n, "decision") \/ ActionHas(n, "ruling")}

EvidenceEvents == {n \in DOMAIN events : ActionHas(n, "evidence") \/ ActionHas(n, "review")}

\* the smallest step number among the events of a non-empty set
MinStep(S) ==
    CHOOSE m \in {events[n].stepNumber : n \in S} :
        \A n \in S : m <= events[n].stepNumber

DecisionPrecedesEvidence ==
    /\ DecisionEvents # {}
    /\ EvidenceEvents # {}
    /\ MinStep(DecisionEvents) < MinStep(EvidenceEvents)

CriticalInformal ==
    SelectSeq(violations, LAMBDA v : v.type = "informal_decision" /\ v.severity = "critical")

\* C12: checkInformalDecisions emits at most one violation per run: one
\* informal_decision of severity critical exactly when a decision-like and
\* an evidence-like event both exist and the smallest decision-like step
\* number is strictly smaller than the smallest evidence-like one; its
\* evidence text cites both step numbers.
C12_EarlyDecisionAtMostOnce ==
    (Ran /\ selected # 0) =>
        /\ Len(CriticalInformal) <= 1
        /\ Len(CriticalInformal) = 1 <=> DecisionPrecedesEvidence
        /\ Len(CriticalInformal) = 1 =>
              /\ IncludesAt(CriticalInformal[1].evidenceText,
                            "Decision at step " \o ToString(MinStep(DecisionEvents)))
              /\ IncludesAt(CriticalInformal[1].evidenceText,
                            "review at step " \o ToString(MinStep(EvidenceEvents)))

C12_Witness ==
    /\ Ran
    /\ selected # 0
    /\ Len(CriticalInformal) = 1
    /\ DecisionPrecedesEvidence

\* ------------------------------------------------------------------- C13

\* C13: the early-decision check always runs: with no case type given and
\* none detected, an event list in which a decision-like event precedes the
\* earliest evidence-like event still yields the critical informal_decision
\* violation in the result of analyzeCompliance.
C13_EarlyDecisionWithoutCaseType ==
    (Ran /\ selected = 0 /\ DecisionPrecedesEvidence) => Len(CriticalInformal) = 1

\* ------------------------------------------------------------------- C14

\* decision-like events without a legal reference (null or empty)
Unjustified == {n \in DecisionEvents : events[n].legalReference \in {Null, ""}}

NoJustification == OfType(violations, "no_justification")

\* C14: with or without a resolved case type, analyzeCompliance emits
\* exactly one no_justification violation of severity medium for every
\* decision-like event ("decision" or "ruling") without a legalReference,
\* and none for decision-like events with one or for other events.
C14_OneNoJustificationPerBareDecision ==
    Ran =>
        /\ Len(NoJustification) = Cardinality(Unjustified)
        /\ \A k \in DOMAIN NoJustification :
              /\ NoJustification[k].severity = "medium"
              /\ \E n \in Unjustified : NoJustification[k].evidenceText = events[n].action
        /\ \A n \in Unjustified :
              Cardinality({k \in DOMAIN NoJustification :
                              NoJustification[k].evidenceText = events[n].action})
                = Cardinality({m \in Unjustified : events[m].action = events[n].action})

C14_Witness ==
    /\ Ran
    /\ selected = 0
    /\ \E n \in Unjustified : ActionHas(n, "ruling") /\ ~ActionHas(n, "decision")
    /\ \E n \in DecisionEvents : n \notin Unjustified
    /\ Len(NoJustification) = 1

\* ------------------------------------------------------------------- C15

\* a catalog entry one of whose list fields does not hold a list
Malformed ==
    \E k \in DOMAIN catalog :
        \/ catalog[k].requiredSteps.kind \notin {"list", "null"}
        \/ catalog[k].forbiddenActions.kind \notin {"list", "null"}

\* C15: a malformed catalog entry never crashes the pipeline: case-type
\* selection and analyzeCompliance treat a non-list requiredSteps or
\* forbiddenActions field as an empty list and complete without raising.
C15_MalformedCatalogNeverRaises ==
    Malformed => pc # "raised"

\* ------------------------------------------------------------------- C16

\* C16: analyzeBias on a recording that does not exist or has no compliance
\* report fails with an error reported to the caller, returns no result and
\* writes no bias indicator: the store is unchanged by the failed call.
C16_BiasNeedsAReport ==
    [][LET id == biasResult'.recordingId
       IN  (/\ pc' \in {"bias_failed", "bias_analyzed"}
            /\ (id \notin DOMAIN recordings \/ ~recordings[id].hasReport))
           => /\ biasResult'.outcome = "error"
              /\ biasResult'.flags = <<>>
              /\ biasFlags' = biasFlags
              /\ recordings' = recordings]_vars

\* a failed call on a recording without a report, after flags were stored
C16_Witness ==
    /\ pc = "bias_failed"
    /\ biasResult.outcome = "error"
    /\ biasResult.recordingId \in DOMAIN recordings
    /\ biasFlags # <<>>

\* ------------------------------------------------------------------- C17

\* C17: the peer population analyzeBias compares the current case against
\* never contains the current case itself; it consists only of other cases
\* of the same institution that have a compliance report, at most 50 of
\* them, the most recently created first.
C17_PeersExcludeCurrentCase ==
    pc = "bias_analyzed" =>
        /\ \A i \in DOMAIN similarCases :
              /\ similarCases[i].id # current.id
              /\ similarCases[i].institution = current.institution
              /\ similarCases[i].hasReport
        /\ Len(similarCases) <= 50
        /\ \A i, j \in DOMAIN similarCases :
              i < j => similarCases[i].id > similarCases[j].id

\* ------------------------------------------------------------------- C18

ScoredPeers == {i \in DOMAIN similarCases : similarCases[i].hasReport}

\* the sum of f over a finite set
RECURSIVE SumOver(_, _)
SumOver(S, f) ==
    IF S = {} THEN 0
    ELSE LET x == CHOOSE y \in S : TRUE IN f[x] + SumOver(S \ {x}, f)

PeerScore == [i \in DOMAIN similarCases |-> similarCases[i].complianceScore]

\* |current - mean| > 2 * standard deviation > 0 over the scored peers, with
\* n * mean = total: n * (n * current - total)^2 > 4 * sum (n * score - total)^2
FartherThanTwoDeviations ==
    LET n == Cardinality(ScoredPeers)
        total == SumOver(ScoredPeers, PeerScore)
        SquaredGap == [i \in ScoredPeers |->
                          (n * PeerScore[i] - total) * (n * PeerScore[i] - total)]
        spread == SumOver(ScoredPeers, SquaredGap)
        gap == n * current.complianceScore - total
    IN  spread > 0 /\ n * gap * gap > 4 * spread

NamedSpeakers(row) ==
    {row.speakers[i] : i \in DOMAIN row.speakers} \ {Null, ""}

\* scored peers that share a speaker with the current case
OfficialPeers ==
    {i \in ScoredPeers : NamedSpeakers(similarCases[i]) \cap NamedSpeakers(current) # {}}

\* official-subset average minus full-peer average, times both counts
AverageGapTimesCounts ==
    SumOver(OfficialPeers, PeerScore) * Cardinality(ScoredPeers)
        - SumOver(ScoredPeers, PeerScore) * Cardinality(OfficialPeers)

PeerEventCount == [i \in DOMAIN similarCases |-> Len(similarCases[i].speakers)]

\* C20: analyzeProceduralInconsistency emits an indicator exactly when there
\* are at least 3 peer cases, the current case has more than 0 events and
\* its event count is more than 40 percent below the peer average event
\* count (count < 0.6 * average); nothing for a current case with zero
\* events or when the peers have zero events on average.
C20_FewerStepsThanPeers ==
    pc = "procedural" =>
        LET n == Len(similarCases)
            total == SumOver(DOMAIN similarCases, PeerEventCount)
            count == Len(current.speakers)
        IN  /\ Len(biasResult.flags) = 1
                  <=> (n >= 3 /\ count > 0 /\ 10 * n * count < 6 * total)
            /\ Len(biasResult.flags) <= 1
            /\ count = 0 => biasResult.flags = <<>>
            /\ total = 0 => biasResult.flags = <<>>

C20_Witness ==
    /\ pc = "procedural"
    /\ Len(biasResult.flags) = 1
    /\ Len(similarCases) = 3

\* -------------------------------------------------------------------- C2

\* C2: every compliance report an analysis path produces or writes to the
\* store has complianceScore in [0,100] and riskScore in [0,100], whatever the
\* input and whatever the external collaborator returned.
C2_ReportScoresInRange ==
    /\ Ran => result.complianceScore \in 0..100 /\ result.riskScore \in 0..100
    /\ report.exists =>
          /\ report.complianceScore \in 0..100
          /\ report.riskScore \in 0..100

\* ------------------------------------------------------------ C21

\* the sum of confidence * deviationScore * 20 over the returned indicators,
\* in millionths
RiskTotal ==
    SumOver(DOMAIN biasResult.flags,
            [i \in DOMAIN biasResult.flags |->
                biasResult.flags[i].confidence * biasResult.flags[i].deviationScore * 20])

\* the integer nearest to RiskTotal, halves going up
RiskRounded ==
    CHOOSE k \in 0..(100 * (MaxFlags + 1)) :
        /\ 2 * RiskTotal >= (2 * k - 1) * 1000000
        /\ 2 * RiskTotal < (2 * k + 1) * 1000000

\* C21: the overall bias risk is the rounded sum of confidence * deviationScore * 20
\* over the emitted indicators, capped at 100; it is 0 when no indicator was
\* emitted, always lies in 0..100, and isAnomaly is true exactly when it exceeds 50
C21_RiskIsCappedRoundedSum ==
    pc = "risk" =>
        /\ biasResult.overallBiasRisk = Min(RiskRounded, 100)
        /\ biasResult.flags = <<>> => biasResult.overallBiasRisk = 0
        /\ biasResult.overallBiasRisk \in 0..100
        /\ biasResult.isAnomaly <=> biasResult.overallBiasRisk > 50

\* several indicators whose sum passes the cap
C21_Witness ==
    /\ pc = "risk"
    /\ Len(biasResult.flags) >= 2
    /\ RiskTotal > 100 * 1000000
    /\ biasResult.overallBiasRisk = 100
    /\ biasResult.isAnomaly

\* ------------------------------------------------------------ C22

\* the rows a step added to the biasFlag table
CreatedFlags == SubSeq(biasFlags', Len(biasFlags) + 1, Len(biasFlags'))

\* C22: a successful analyzeBias run keeps the rows already stored and creates
\* exactly one biasFlag row per returned indicator, in order, each carrying the
\* compliance report id of the analysed case and the indicator's values; a
\* run that returns no indicator creates no row
C22_OneRowPerIndicator ==
    [][pc' = "bias_analyzed" =>
          /\ Len(biasFlags') = Len(biasFlags) + Len(biasResult'.flags)
          /\ SubSeq(biasFlags', 1, Len(biasFlags)) = biasFlags
          /\ \A i \in DOMAIN CreatedFlags :
                /\ CreatedFlags[i].complianceReportId = biasResult'.recordingId
                /\ CreatedFlags[i].check = biasResult'.flags[i].check
                /\ CreatedFlags[i].confidence = biasResult'.flags[i].confidence
                /\ CreatedFlags[i].deviationScore = biasResult'.flags[i].deviationScore]_vars

\* a run that returned an indicator and stored it
C22_Witness ==
    /\ pc = "bias_analyzed"
    /\ Len(biasResult.flags) >= 1
    /\ Len(biasFlags) >= Len(biasResult.flags)
    /\ biasFlags[Len(biasFlags)].complianceReportId = biasResult.recordingId

\* ------------------------------------------------------------ C23

\* C23: repeating analyzeBias on one case leaves its indicators stored once:
\* no two biasFlag rows of one compliance report come from the same analysis
C23_RepeatedRunKeepsOneCopy ==
    \A i \in DOMAIN biasFlags : \A j \in DOMAIN biasFlags :
        (/\ biasFlags[i].complianceReportId = biasFlags[j].complianceReportId
         /\ biasFlags[i].check = biasFlags[j].check) => i = j

\* ------------------------------------------------------------ C24

\* the keyword occurs in the step text, whatever the case of its letters
KeywordIn(step, keyword) ==
    \E i \in 1..Len(step) :
        /\ i + Len(keyword) - 1 <= Len(step)
        /\ LowerChars(SubSeq(step, i, i + Len(keyword) - 1)) = keyword

TableSeverity(step) ==
    IF KeywordIn(step, "rights") \/ KeywordIn(step, "notify") THEN "critical"
    ELSE IF KeywordIn(step, "hearing") \/ KeywordIn(step, "evidence") THEN "high"
    ELSE IF KeywordIn(step, "document") \/ KeywordIn(step, "record") THEN "medium"
    ELSE "low"

MissingStepNamed(step) ==
    {i \in DOMAIN storedViolations :
        /\ storedViolations[i].type = "missing_step"
        /\ storedViolations[i].violatedRule = "Required procedure step: " \o step}

\* C24: a missing_step violation is critical when its step text contains
\* rights or notify, else high when it contains hearing or evidence, else
\* medium when it contains document or record, else low, in any letter case
C24_SeverityFollowsKeywordTable ==
    pc = "analyzed" =>
        /\ \A i \in DOMAIN storedViolations :
              storedViolations[i].type = "missing_step" =>
                  \E step \in SeverityTexts \cup {"Hearing opened"} : i \in MissingStepNamed(step)
        /\ \A step \in SeverityTexts \cup {"Hearing opened"} :
              \A i \in MissingStepNamed(step) :
                  storedViolations[i].severity = TableSeverity(step)

\* an upper-case keyword, a step with keywords of two tiers and a near miss
C24_Witness ==
    /\ pc = "analyzed"
    /\ \E i \in MissingStepNamed("NOTIFY party") : storedViolations[i].severity = "critical"
    /\ \E i \in MissingStepNamed("Record of rights") : storedViolations[i].severity = "critical"
    /\ \E i \in MissingStepNamed("Notification") : storedViolations[i].severity = "low"

\* ------------------------------------------------------------ C25

StepReportedMissing(step) ==
    \E k \in DOMAIN violations :
        /\ violations[k].type = "missing_step"
        /\ violations[k].violatedRule = "Required procedure step: " \o step

\* some event puts the step into the order check's found subsequence
InFoundSubsequence(step) ==
    \E i \in DOMAIN events :
        LET k == FirstMatchingStep(events[i], ResolvedSteps)
        IN  k > 0 /\ ResolvedSteps[k] = step

\* some event adds to the selector's score through the step
CountedBySelector(step) ==
    \E i \in DOMAIN events : SelectorMatch(events[i].action, step)

\* C25: the three checks agree on which events match which steps: a required
\* step is reported missing exactly when no event puts it into the order
\* check's found subsequence, and exactly when no event counts it towards
\* the selector's score (texts that are empty or blank set aside)
C25_OneMatchPredicate ==
    (/\ Ran /\ selected # 0
     /\ \A i \in DOMAIN events : ~IsBlank(events[i].action)
     /\ \A s \in DOMAIN ResolvedSteps : ~IsBlank(ResolvedSteps[s])) =>
        \A s \in DOMAIN ResolvedSteps :
            /\ StepReportedMissing(ResolvedSteps[s]) <=> ~InFoundSubsequence(ResolvedSteps[s])
            /\ StepReportedMissing(ResolvedSteps[s]) <=> ~CountedBySelector(ResolvedSteps[s])

\* ------------------------------------------------------------ C26

Recommends(sentence) == IncludesAt(report.recommendation, sentence)

SomeOfType(type) == \E i \in DOMAIN violations : violations[i].type = type

\* C26: the recommendation is the no-action message exactly when the list is
\* empty; it holds the review-case-file sentence exactly when a missing_step
\* is present, the escalate sentence exactly when an informal_decision is
\* present, the request-justification sentence exactly when a
\* no_justification is present and the URGENT sentence exactly when a
\* critical violation is present
C26_RecommendationIsALookup ==
    pc = "recommended" =>
        /\ (report.recommendation
                = "No action required. Process appears to comply with procedures.")
             <=> violations = <<>>
        /\ Recommends("Review case file to confirm all required steps were documented")
             <=> SomeOfType("missing_step")
        /\ Recommends("Escalate for supervisor review due to procedural irregularities")
             <=> SomeOfType("informal_decision")
        /\ Recommends("Request legal justification for decisions made")
             <=> SomeOfType("no_justification")
        /\ Recommends("URGENT: This case requires immediate human review")
             <=> \E i \in DOMAIN violations : violations[i].severity = "critical"

\* a list with a high missing_step and a critical no_justification
C26_Witness ==
    /\ pc = "recommended"
    /\ SomeOfType("missing_step") /\ SomeOfType("no_justification")
    /\ ~SomeOfType("informal_decision")
    /\ \E i \in DOMAIN violations : violations[i].severity = "high"
    /\ report.recommendation
         = "Review case file to confirm all required steps were documented. "
             \o "Request legal justification for decisions made. "
             \o "URGENT: This case requires immediate human review."

\* ------------------------------------------------------------ C30

\* C30: for every non-empty violation list the recommendation holds at least
\* one of the four sentences of the table
C30_NonEmptyListGetsASentence ==
    (pc = "recommended" /\ violations # <<>>) =>
        \/ Recommends("Review case file to confirm all required steps were documented")
        \/ Recommends("Escalate for supervisor review due to procedural irregularities")
        \/ Recommends("Request legal justification for decisions made")
        \/ Recommends("URGENT: This case requires immediate human review")

\* ------------------------------------------------------------ C27

\* the stored rows are the violations of the run, one row each and in order,
\* every row carrying the id of the report
EveryViolationWritten ==
    /\ report.exists
    /\ Len(storedViolations) = Len(violations)
    /\ \A i \in DOMAIN storedViolations :
          /\ storedViolations[i].complianceReportId = report.id
          /\ storedViolations[i].type = violations[i].type
          /\ storedViolations[i].description = violations[i].description
          /\ storedViolations[i].severity = violations[i].severity

\* C27: the status is 'completed' only when the report and one row per
\* violation of the run, each tagged with the report id, are written; a run
\* that returned has written all of them and set the status; while a row is
\* still unwritten the status is not terminal
C27_StatusAfterAllWrites ==
    /\ status \in {"completed", "error"} => EveryViolationWritten
    /\ pc \in {"status_updated", "analyzed"} => (status = "completed" /\ EveryViolationWritten)
    /\ \A i \in DOMAIN storedViolations : storedViolations[i].complianceReportId = report.id

\* a returned run with two violation rows, and before it a state with the
\* report written, a row missing and the status not yet terminal
C27_Witness ==
    /\ pc = "analyzed"
    /\ status = "completed"
    /\ Len(violations) >= 2
    /\ EveryViolationWritten

C27_WitnessMidway ==
    /\ pc = "report_created"
    /\ report.exists
    /\ Len(storedViolations) = 1 /\ Len(violations) >= 2
    /\ status = "analyzed"

\* ------------------------------------------------------------ C28

\* C28: under every interleaving of the writers the audit log is one linear
\* hash chain: every entry has an entryHash, every entry after the first
\* names the entryHash of the entry just before it as its previousHash, and
\* no two entries name the same previousHash
C28_SingleLinearChain ==
    /\ \A i \in DOMAIN auditLog : auditLog[i].entryHash # Null
    /\ \A i \in 2..Len(auditLog) : auditLog[i].previousHash = auditLog[i - 1].entryHash
    /\ \A i \in DOMAIN auditLog : \A j \in DOMAIN auditLog :
          auditLog[i].previousHash = auditLog[j].previousHash => i = j

\* ------------------------------------------------------------ C29

\* a change of the status to one of the pipeline's stages comes from the
\* stage before it
StatusStepsInOrder ==
    status' # status =>
        /\ status' = "transcribed" => status = "transcribing"
        /\ status' = "analyzing" => status = "transcribed"
        /\ status' = "analyzed" => status = "analyzing"
        /\ status' = "completed" => status = "analyzed"

\* C29: when POST /api/analyze has answered, the status is 'completed' after
\* a success and 'error' after a failed step, never one of the stages in
\* between; and 'completed' is reached only through transcribing,
\* transcribed, analyzing and analyzed, in this order
C29_PipelineEndsTerminal ==
    /\ [](pc = "posted" => status = "completed")
    /\ [](pc = "post_failed" => status = "error")
    /\ [][StatusStepsInOrder]_vars

====
